---- MODULE Spec2Model ----
(***************************************************************************)
(* Order-taking backend of the bakery storefront (Go, gin + MongoDB).      *)
(* The model follows src/unnamed/part_000: the three store collections     *)
(* (products, orders, delivered), the request handlers that read and write *)
(* them, and the identifier generators.  Every handler is cut at its store *)
(* calls: one action per store call, the local code around a call          *)
(* belonging to the action of that call, except that a read of time.Now()  *)
(* which follows the reply of a store call is a step of its own             *)
(* (createOrder, markOrderDelivered).  Handlers of different requests       *)
(* interleave at these points (gin serves each request on its own          *)
(* goroutine).                                                             *)
(*                                                                         *)
(* Money is kept in cents.  ObjectIDs are small integers handed out by     *)
(* counters; the unparseable path id is BadId.                             *)
(*                                                                         *)
(* The session store (activeSessions under sessionsMu), login, logout,     *)
(* the auth check, the requireAuth middleware and the hourly sweep are     *)
(* cut at the lock calls: one action takes the lock and does the map       *)
(* access of the critical section, the next releases it and finishes.      *)
(* The middleware and the auth check read the clock after they released    *)
(* the read lock: the release and the decision are two steps.              *)
(* A protected handler begins where requireAuth calls c.Next().  The       *)
(* order and catalog specifications take that verdict as given and begin   *)
(* the handler directly; the guarded specifications run the middleware     *)
(* in front of it.                                                         *)
(*                                                                         *)
(* The in-memory product slice (products under productsMu) is the variable *)
(* cache and its mutex the variable productsMu: the slice is set by the    *)
(* catalog load of main(), appended to by createProduct under the lock and *)
(* read by no handler.  A start of the process runs the whole catalog      *)
(* load, its store write included.                                         *)
(*                                                                         *)
(* A product document carries its place in the collection (pos): a FindOne *)
(* returns the match that was inserted first.  A price is a float64: the   *)
(* three values that are no finite amounts are kept apart from the cents,  *)
(* and c.JSON fails to render them.                                        *)
(***************************************************************************)
EXTENDS Integers, Sequences, FiniteSets, TLC

----------------------------------------------------------------------------
(* Bounds of the model *)

\* request goroutines that can be in flight together
NumProcs == 2

\* order ObjectIDs the model hands out (create-order calls that build a record)
MaxOrders == 2

\* product ObjectIDs the model hands out beyond the seeded catalog
MaxNewProducts == 2

\* ticks of the wall clock
MaxClock == 1

\* store calls that fail or time out in one run
MaxFaults == 2

\* logins that build a session token
MaxSessions == 2

\* ticks of the wall clock in the 24 hours a session lasts
SessionTicks == 2

\* ticks of the wall clock in the specifications of the session store
MaxSessionClock == 3

\* catalog loads that insert the default catalog after the first
MaxReseeds == 1

Procs == 1 .. NumProcs

----------------------------------------------------------------------------
(* The seeded catalog, initializeDefaultProducts *)

NumDefaults == 8

DefaultPrice ==
  <<899, 699, 499, 2499, 1899, 799, 599, 1299>>

\* A document of the products collection carries, beside the fields of the
\* Product struct, its place in the natural order of the collection (pos):
\* documents are returned in the order they were inserted.
DefaultProducts ==
  { [id |-> i, productId |-> i, price |-> DefaultPrice[i], pos |-> i] : i \in 1 .. NumDefaults }

\* the zero ObjectID of a Product struct whose ID was never set
NilObjectID == 0

\* the documents initializeDefaultProducts hands to InsertMany: copies of the
\* defaults, each with a new ObjectID, the first being `first`; InsertMany
\* places them after the `placed` documents of the collection
SeedDocs(first, placed) ==
  { [id |-> first + i - 1, productId |-> i, price |-> DefaultPrice[i], pos |-> placed + i]
    : i \in 1 .. NumDefaults }

\* products = defaultProducts: the slice itself, whose elements have no ObjectID
\* (the loop sets the ID of its copy)
DefaultCache ==
  { [id |-> NilObjectID, productId |-> i, price |-> DefaultPrice[i]] : i \in 1 .. NumDefaults }

\* cursor.All(ctx, &productsList): a document decoded into a Product struct
Decoded(r) == [id |-> r.id, productId |-> r.productId, price |-> r.price]

ProductsList(coll) == { Decoded(r) : r \in coll }

----------------------------------------------------------------------------
(* Inputs *)

\* bodies of POST /api/orders
OrderRequests ==
  { [customer |-> "Jane", items |-> << [productId |-> 1, quantity |-> 2],
                                       [productId |-> 3, quantity |-> 1] >>],
    [customer |-> "Eve",  items |-> << >>] }

\* bodies of POST /api/orders that ShouldBindJSON takes: also those with a
\* quantity of zero or below
AnyOrderRequests ==
  OrderRequests \cup
    { [customer |-> "Max", items |-> << [productId |-> 1, quantity |-> 0] >>],
      [customer |-> "Sam", items |-> << [productId |-> 3, quantity |-> -1] >>] }

\* a path id that primitive.ObjectIDFromHex rejects
BadId == 0

OrderOids == 1 .. MaxOrders

OrderIdParams == OrderOids \cup {BadId}

\* price form field of create-product after ParseFloat (an unparseable field
\* parses to 0)
PriceInputs == {0, 250}

\* price form field of update-product after ParseFloat
UpdatePrices == {250}

\* path ids of GET /api/products/:id: hex says that the string is the 24 hex
\* digits of ObjectID n, otherwise it is the decimal digits of n
ProductPathIds ==
  { [hex |-> h, n |-> n] : h \in BOOLEAN, n \in {3, NumDefaults + 1} }

\* primitive.ObjectIDFromHex succeeds
IsObjectIDHex(param) == param.hex

\* float64 values that are no finite amounts: what ParseFloat returns for the
\* fields "NaN", "Inf" and "-Inf" (with no error).  They stand beside the
\* cents as three numbers no amount of the model comes near.
NaN == 999999999

PosInf == 1000000000

NegInf == -1000000000

IsFinite(x) == x \notin {NaN, PosInf, NegInf}

\* price form field of create-product and update-product after ParseFloat, for
\* every field a client can send: missing or unparseable (0), negative,
\* positive, and the three that are no finite amounts
AnyPrices == {0, -250, 250, NaN, PosInf, NegInf}

\* products that update-product and delete-product are asked to touch
ProductIdParams == {3} \cup ((NumDefaults + 1) .. (NumDefaults + MaxNewProducts)) \cup {BadId}

\* how a store call can end: answered, failed without effect, or (writes only)
\* applied by the server while the caller's context deadline expired
ReadKinds == {"ok", "err"}

WriteKinds == {"ok", "err", "lost"}

Applied(outcome) == outcome \in {"ok", "lost"}

Reported(outcome) == outcome = "ok"

----------------------------------------------------------------------------
(* Store primitives and pure helpers *)

RECURSIVE SetMax(_)
SetMax(S) ==
  IF S = {} THEN 0
  ELSE LET x == CHOOSE y \in S : TRUE
           m == SetMax(S \ {x})
       IN IF x > m THEN x ELSE m

SetMin(S) == CHOOSE x \in S : \A y \in S : x <= y

Ids(coll) == { r.id : r \in coll }

\* a FindOne whose filter matches every document
FindByIdAny(coll, id) == coll

\* FindOne(bson.M{"_id": id})
FindById(coll, id) == { r \in coll : r.id = id }

\* a DeleteOne whose filter matches nothing
DeleteByIdMatchingNothing(coll, id) == coll

\* DeleteOne(bson.M{"_id": id}): no error when nothing matches
DeleteById(coll, id) == { r \in coll : r.id # id }

\* an InsertOne that takes a document whose _id is already in the collection
DuplicateKeyNever(coll, doc) == FALSE

\* an InsertOne that rejects a document only when the same document is there
DuplicateKeyWholeDocument(coll, doc) == doc \in coll

\* InsertOne rejects a document whose _id is already in the collection
DuplicateKey(coll, doc) == doc.id \in Ids(coll)

\* the place InsertOne gives the next document: after every document there is
NextPos(coll) == SetMax({ r.pos : r \in coll }) + 1

\* the document as InsertOne stores it in the collection
Placed(doc, coll) ==
  [id |-> doc.id, productId |-> doc.productId, price |-> doc.price, pos |-> NextPos(coll)]

\* the first of the documents in natural (insertion) order
FirstInserted(hits) ==
  IF hits = {} THEN {}
  ELSE { CHOOSE r \in hits : r.pos = SetMin({ h.pos : h \in hits }) }

\* FindOne(bson.M{"productId": n}): the first match in natural (insertion) order
FindByProductId(coll, n) ==
  FirstInserted({ r \in coll : r.productId = n })

\* BSON values of a filter and of a stored field: the int32 of a productId
\* field, and the string whose characters are the decimal digits of n
BsonInt(n) == [type |-> "int", v |-> n]

BsonString(n) == [type |-> "string", v |-> n]

\* equality of the store: values of different types are never equal
BsonEq(a, b) == a.type = b.type /\ a.v = b.v

\* FindOne(bson.M{"productId": value}) for a filter value of any type
FindByProductIdValue(coll, value) ==
  FirstInserted({ r \in coll : BsonEq(BsonInt(r.productId), value) })

\* getNextOrderID without the increment
GetNextOrderIDSameAsMax(coll) ==
  IF coll = {} THEN 1 ELSE SetMax({ r.orderId : r \in coll })

\* getNextOrderID: FindOne sorted by orderId descending, plus one; 1 on ErrNoDocuments
GetNextOrderID(coll) ==
  IF coll = {} THEN 1 ELSE SetMax({ r.orderId : r \in coll }) + 1

\* getNextProductID: the same over the products collection
GetNextProductID(coll) ==
  IF coll = {} THEN 1 ELSE SetMax({ r.productId : r \in coll }) + 1

\* float64 `x <= 0`: false for NaN
LeqZero(x) ==
  CASE x = NaN -> FALSE
    [] x = PosInf -> FALSE
    [] x = NegInf -> TRUE
    [] OTHER -> x <= 0

\* a float64 amount that is zero or more (NaN is neither)
NonNegative(x) ==
  CASE x = NaN -> FALSE
    [] x = PosInf -> TRUE
    [] x = NegInf -> FALSE
    [] OTHER -> x >= 0

\* float64 `x * float64(n)`
Times(x, n) ==
  CASE x = NaN -> NaN
    [] x = PosInf -> IF n > 0 THEN PosInf ELSE IF n < 0 THEN NegInf ELSE NaN
    [] x = NegInf -> IF n > 0 THEN NegInf ELSE IF n < 0 THEN PosInf ELSE NaN
    [] OTHER -> x * n

\* float64 `x + y`
Plus(x, y) ==
  CASE x = NaN \/ y = NaN -> NaN
    [] x = PosInf -> IF y = NegInf THEN NaN ELSE PosInf
    [] x = NegInf -> IF y = PosInf THEN NaN ELSE NegInf
    [] ~IsFinite(y) -> y
    [] OTHER -> x + y

\* one pass of the price loop of createOrder: the line total of one item
LineTotal(coll, item, outcome) ==
  LET hit == FindByProductId(coll, item.productId)
  IN IF outcome = "ok" /\ hit # {}
       THEN Times((CHOOSE r \in hit : TRUE).price, item.quantity)
       ELSE 0

\* the Order struct built by createOrder
NewOrder(oid, orderId, req, total, at) ==
  [id |-> oid, orderId |-> orderId, customer |-> req.customer, items |-> req.items,
   total |-> total, status |-> "pending", createdAt |-> at]

\* a delivered document that does not carry the order's total over
DeliveredOrderWithoutTotal(order, at) ==
  [id |-> order.id, orderId |-> order.orderId, customer |-> order.customer,
   items |-> order.items, total |-> 0, status |-> "delivered",
   createdAt |-> order.createdAt, deliveredAt |-> at]

\* a delivered document that keeps the status of the active order
DeliveredOrderStillPending(order, at) ==
  [id |-> order.id, orderId |-> order.orderId, customer |-> order.customer,
   items |-> order.items, total |-> order.total, status |-> order.status,
   createdAt |-> order.createdAt, deliveredAt |-> at]

\* a delivered document that does not carry the order's items over
DeliveredOrderWithoutItems(order, at) ==
  [id |-> order.id, orderId |-> order.orderId, customer |-> order.customer,
   items |-> << >>, total |-> order.total, status |-> "delivered",
   createdAt |-> order.createdAt, deliveredAt |-> at]

\* the bson.M document built by markOrderDelivered
DeliveredOrder(order, at) ==
  [id |-> order.id, orderId |-> order.orderId, customer |-> order.customer,
   items |-> order.items, total |-> order.total, status |-> "delivered",
   createdAt |-> order.createdAt, deliveredAt |-> at]

\* the Product struct built by createProduct
NewProduct(oid, productId, price) ==
  [id |-> oid, productId |-> productId, price |-> price]

----------------------------------------------------------------------------
(* The session store: tokens, credentials of a request, the map, the lock *)

\* Token strings: 0 is the empty string, k > 0 the k-th token generateToken
\* returned, Forged a string no login returned, BearerWord the seven
\* characters "Bearer " themselves.
NoToken == 0

Forged == -1

BearerWord == -2

\* adminUsername, adminPassword: the defaults of getEnv
AdminUsername == "admin"

AdminPassword == "admin"

\* a body of POST /api/auth/login that ShouldBindJSON rejects
NoBody == [bound |-> FALSE, username |-> "", password |-> ""]

\* bodies of POST /api/auth/login
LoginRequests ==
  { [bound |-> TRUE,  username |-> "admin", password |-> "admin"],
    [bound |-> TRUE,  username |-> "admin", password |-> "guess"],
    [bound |-> TRUE,  username |-> "root",  password |-> "admin"],
    NoBody }

\* "expiresIn" of the login response, seconds
ExpiresIn == 86400

\* The Authorization header is a record: bearer says that the value begins
\* with "Bearer ", tok is what follows (the whole value when bearer is FALSE).
HeaderEmpty(h) == ~h.bearer /\ h.tok = NoToken

\* len(token) > 7 && token[:7] == "Bearer "
HasBearerPrefix(h) == h.bearer /\ h.tok # NoToken

\* the header value as a token string when no prefix is cut from it
Whole(h) == IF h.bearer THEN BearerWord ELSE h.tok

\* requireAuth: the header, the cookie only when the header is empty, then
\* the prefix cut
GuardToken(h, c) ==
  IF HeaderEmpty(h) THEN c
  ELSE IF HasBearerPrefix(h) THEN h.tok ELSE Whole(h)

\* handleLogout and checkAuth: the header after "Bearer ", otherwise the cookie
\* when there is one, otherwise the header as it is
EndpointToken(h, c) ==
  IF HasBearerPrefix(h) THEN h.tok
  ELSE IF c # NoToken THEN c ELSE Whole(h)

\* make(map[string]time.Time)
NoSessions == [t \in {} |-> 0]

\* a session stored without the 24 hours
IssueExpired(m, t, at) ==
  [x \in DOMAIN m \cup {t} |-> IF x = t THEN at ELSE m[x]]

\* a login that leaves only its own session in the map
IssueAlone(m, t, at) == [x \in {t} |-> at + SessionTicks]

\* activeSessions[token] = time.Now().Add(24 * time.Hour)
Issue(m, t, at) ==
  [x \in DOMAIN m \cup {t} |-> IF x = t THEN at + SessionTicks ELSE m[x]]

\* a delete that empties the map
RevokeAll(m, t) == NoSessions

\* a delete that leaves the entry in the map
RevokeNothing(m, t) == m

\* a delete that takes out every entry but the one of the token
RevokeOthers(m, t) == [x \in DOMAIN m \cap {t} |-> m[x]]

\* delete(activeSessions, token)
Revoke(m, t) == [x \in DOMAIN m \ {t} |-> m[x]]

\* a loop that deletes no entry
SweepExpiredKeepsAll(m, at) == m

\* the loop of cleanupSessions: delete every entry with now.After(expiry)
SweepExpired(m, at) == [x \in { y \in DOMAIN m : ~(at > m[y]) } |-> m[x]]

\* expiry, exists := activeSessions[token]
Lookup(m, t) ==
  IF t \in DOMAIN m THEN [exists |-> TRUE, expiry |-> m[t]]
  ELSE [exists |-> FALSE, expiry |-> 0]

\* requireAuth lets the request through unless !exists || time.Now().After(expiry)
GuardAdmits(exists, expiry, at) == ~(~exists \/ at > expiry)

\* checkAuth: exists && time.Now().Before(expiry)
CheckAuthenticated(exists, expiry, at) == exists /\ at < expiry

\* sessionsMu: the goroutine holding the write lock and those holding read locks
Nobody == 0

Sweeper == NumProcs + 1

Unlocked == [writer |-> Nobody, readers |-> {}]

\* a Lock that does not wait for the readers
CanLockBesideReaders(mu) == mu.writer = Nobody

\* Lock() returns when no goroutine holds the mutex
CanLock(mu) == mu.writer = Nobody /\ mu.readers = {}

\* RLock() returns when no goroutine holds the write lock
CanRLock(mu) == mu.writer = Nobody

Lock(mu, g) == [mu EXCEPT !.writer = g]

Unlock(mu, g) == [mu EXCEPT !.writer = Nobody]

RLock(mu, g) == [mu EXCEPT !.readers = @ \cup {g}]

RUnlock(mu, g) == [mu EXCEPT !.readers = @ \ {g}]

----------------------------------------------------------------------------
(* State *)

VARIABLES
  products,      \* productsCollection
  orders,        \* ordersCollection (active orders)
  delivered,     \* deliveredCollection
  now,           \* time.Now()
  nextOrderOid,  \* primitive.NewObjectID() for orders
  nextProductOid,\* primitive.NewObjectID() for products
  pc,            \* per goroutine: where its handler stands
  loc,           \* per goroutine: the handler's locals
  resp,          \* per goroutine: the response written by c.JSON
  faults,        \* store calls that have failed or timed out so far
  activeSessions,\* the session map: token -> expiry
  sessionsMu,    \* the sync.RWMutex of the session map: who holds it
  nextToken,     \* generateToken(): the next unused token
  sweepPc,       \* where the cleanupSessions goroutine stands
  cache,         \* products: the in-memory slice of Product under productsMu
  productsMu,    \* the sync.RWMutex of the slice: who holds it
  hist           \* history of the run, read by the properties only

vars == << products, orders, delivered, now, nextOrderOid, nextProductOid,
           pc, loc, resp, faults, activeSessions, sessionsMu, nextToken,
           sweepPc, cache, productsMu, hist >>

store == << products, orders, delivered >>

sess == << activeSessions, sessionsMu, nextToken, sweepPc >>

mem == << cache, productsMu >>

\* the token strings a client can send: those a login has answered with so
\* far and a forged one
Sendable == hist.answered \cup {Forged}

\* the Authorization header: absent (no prefix, empty), a bare token, a token
\* after "Bearer ", or "Bearer " alone
Headers ==
  { [bearer |-> b, tok |-> t] : b \in BOOLEAN, t \in Sendable \cup {NoToken} }

\* the auth_token cookie: absent (NoToken) or a token
Cookies == Sendable \cup {NoToken}

NoOrder == [id |-> BadId]

\* what the middleware or an auth endpoint holds about the request: the route
\* asked for, the token taken from the request (or generated for it), what the
\* session map said about it, the time.Now() it was compared with (or stored
\* at) and the body of a login
NoAuth ==
  [route |-> "none", tok |-> NoToken, exists |-> FALSE, expiry |-> 0, at |-> 0,
   afterLogout |-> FALSE, known |-> FALSE, body |-> NoBody]

IdleLoc ==
  [op |-> "none", req |-> [customer |-> "", items |-> << >>], idx |-> 0,
   total |-> 0, expect |-> 0, nextId |-> 0, id |-> BadId, order |-> NoOrder,
   deliveredAt |-> 0, price |-> 0, stale |-> FALSE, late |-> FALSE,
   comp |-> "none", text |-> FALSE, both |-> FALSE, auth |-> NoAuth]

NoResp ==
  [code |-> 0, msg |-> "", orderId |-> 0, at |-> 0, total |-> 0,
   token |-> NoToken, expiresIn |-> 0, served |-> {}]

Resp(code, msg) == [NoResp EXCEPT !.code = code, !.msg = msg]

InitHist ==
  [persisted |-> {},      \* ObjectIDs of the orders ever written to orders
   orderLog |-> << >>,    \* orderIds of the persisted orders, in order of insertion
   productLog |-> << >>,  \* productIds of the products written by createProduct
   created |-> {},        \* ObjectIDs of the products written by createProduct
   okDelivered |-> {},    \* ObjectIDs whose mark-delivered call answered 200
   racyOrders |-> {},     \* orders inserted after another insert followed their read
   racyProducts |-> {},   \* products inserted after another insert followed their read
   issued |-> NoSessions, \* tokens issued since the process started -> time of issue
   answered |-> {},       \* tokens that a login response has carried
   revoked |-> {},        \* issued tokens that a logout has deleted from the session map
   sweptAt |-> 0,         \* the time.Now() of the sweep that holds the lock
   seeded |-> FALSE]      \* the run began with the seeded catalog in the store

\* After main(): loadProductsFromDB found the collection empty and seeded it
\* (or the InsertMany failed and the collection stayed empty); no orders yet.
Init ==
  /\ products \in {DefaultProducts, {}}
  /\ orders = {}
  /\ delivered = {}
  /\ now = 0
  /\ nextOrderOid = 1
  /\ nextProductOid = NumDefaults + 1
  /\ pc = [p \in Procs |-> "idle"]
  /\ loc = [p \in Procs |-> IdleLoc]
  /\ resp = [p \in Procs |-> NoResp]
  /\ faults = 0
  /\ activeSessions = NoSessions
  /\ sessionsMu = Unlocked
  /\ nextToken = 1
  /\ sweepPc = "waiting"
  /\ cache = DefaultCache
  /\ productsMu = Unlocked
  /\ hist = [InitHist EXCEPT !.seeded = (products = DefaultProducts)]

\* the handler of p answers and ends
Answer(p, r) ==
  /\ pc' = [pc EXCEPT ![p] = "done"]
  /\ resp' = [resp EXCEPT ![p] = r]

Goto(p, label) ==
  /\ pc' = [pc EXCEPT ![p] = label]
  /\ UNCHANGED resp

\* c.JSON of a value that holds the float64s `floats`: encoding/json refuses
\* NaN and the infinities, and gin, by its version, then leaves the status
\* with an empty body or panics into the Recovery middleware of gin.Default(),
\* which answers 500
RenderKinds(floats) ==
  IF \A x \in floats : IsFinite(x) THEN {"body"} ELSE {"empty", "panic"}

Rendered(r, how) ==
  CASE how = "body" -> r
    [] how = "empty" -> Resp(r.code, "")
    [] how = "panic" -> Resp(500, "")

\* the handler of p answers with a value holding `floats` and ends
Send(p, r, floats) == \E how \in RenderKinds(floats) : Answer(p, Rendered(r, how))

\* the outcomes the store can still produce, and the count of those that failed
ReadOutcomes == IF faults < MaxFaults THEN ReadKinds ELSE {"ok"}

WriteOutcomes == IF faults < MaxFaults THEN WriteKinds ELSE {"ok"}

Count(outcome) == faults' = IF outcome = "ok" THEN faults ELSE faults + 1

\* bookkeeping for the properties: the insert of p lands while the handlers at
\* `label` hold an identifier they computed from an older read
Overtake(p, labels) ==
  [q \in Procs |-> IF q # p /\ pc[q] \in labels THEN [loc[q] EXCEPT !.stale = TRUE]
                   ELSE loc[q]]

InFlight(op) == Cardinality({ q \in Procs : loc[q].op = op /\ pc[q] # "done" })

----------------------------------------------------------------------------
(* POST /api/orders: createOrder *)

\* createOrder without the check of the item sequence
CreateOrderStartUnchecked(p, req) ==
  /\ pc[p] = "idle"
  /\ nextOrderOid + InFlight("createOrder") <= MaxOrders
  /\ loc' = [loc EXCEPT ![p] = [IdleLoc EXCEPT !.op = "createOrder", !.req = req, !.idx = 1]]
  /\ Goto(p, IF Len(req.items) = 0 THEN "co_nextid" ELSE "co_price")
  /\ UNCHANGED << sess, mem, store, now, nextOrderOid, nextProductOid, faults, hist >>

\* bind and validate the body
CreateOrderStart(p, req) ==
  /\ pc[p] = "idle"
  /\ nextOrderOid + InFlight("createOrder") <= MaxOrders
  /\ loc' = [loc EXCEPT ![p] = [IdleLoc EXCEPT !.op = "createOrder", !.req = req, !.idx = 1]]
  /\ IF Len(req.items) = 0
       THEN Answer(p, Resp(400, "Order must contain at least one item"))
       ELSE Goto(p, "co_price")
  /\ UNCHANGED << sess, mem, store, now, nextOrderOid, nextProductOid, faults, hist >>

\* one pass of the price loop: productsCollection.FindOne by productId
CreateOrderPrice(p) ==
  /\ pc[p] = "co_price"
  /\ \E outcome \in ReadOutcomes :
       LET l == loc[p]
           item == l.req.items[l.idx]
       IN /\ Count(outcome)
          /\ loc' = [loc EXCEPT ![p] =
                       [l EXCEPT !.total = Plus(@, LineTotal(products, item, outcome)),
                                 !.expect = Plus(@, LineTotal(products, item, "ok")),
                                 !.idx = @ + 1]]
          /\ Goto(p, IF l.idx = Len(l.req.items) THEN "co_nextid" ELSE "co_price")
  /\ UNCHANGED << sess, mem, store, now, nextOrderOid, nextProductOid, hist >>

\* createOrder going on with the zero identifier when getNextOrderID fails
CreateOrderNextIdDespiteError(p) ==
  /\ pc[p] = "co_nextid"
  /\ \E outcome \in ReadOutcomes :
       LET n == IF outcome = "ok" THEN GetNextOrderID(orders) ELSE 0
       IN /\ Count(outcome)
          /\ loc' = [loc EXCEPT ![p].nextId = n]
          /\ Goto(p, "co_build")
  /\ UNCHANGED << sess, mem, store, now, nextOrderOid, nextProductOid, hist >>

\* getNextOrderID: the FindOne of the highest orderId and its reply
CreateOrderNextId(p) ==
  /\ pc[p] = "co_nextid"
  /\ \E outcome \in ReadOutcomes :
       /\ Count(outcome)
       /\ IF outcome = "ok"
         THEN /\ loc' = [loc EXCEPT ![p].nextId = GetNextOrderID(orders)]
              /\ Goto(p, "co_build")
         ELSE /\ Answer(p, Resp(500, "Failed to generate order ID"))
              /\ UNCHANGED loc
  /\ UNCHANGED << sess, mem, store, now, nextOrderOid, nextProductOid, hist >>

\* the Order struct with a new ObjectID and CreatedAt: time.Now(), read once
\* the identifier has come back from the store
CreateOrderBuild(p) ==
  /\ pc[p] = "co_build"
  /\ loc' = [loc EXCEPT ![p].order = NewOrder(nextOrderOid, loc[p].nextId, loc[p].req,
                                              loc[p].total, now)]
  /\ nextOrderOid' = nextOrderOid + 1
  /\ Goto(p, "co_insert")
  /\ UNCHANGED << sess, mem, store, now, nextProductOid, faults, hist >>

\* ordersCollection.InsertOne
CreateOrderInsert(p) ==
  /\ pc[p] = "co_insert"
  /\ \E outcome \in WriteOutcomes :
       LET o == loc[p].order
       IN /\ Count(outcome)
          /\ IF Applied(outcome)
               THEN /\ orders' = orders \cup {o}
                    /\ hist' = [hist EXCEPT !.persisted = @ \cup {o.id},
                                            !.orderLog = Append(@, o.orderId),
                                            !.racyOrders = IF loc[p].stale THEN @ \cup {o.id}
                                                           ELSE @]
                    /\ loc' = Overtake(p, {"co_build", "co_insert"})
               ELSE UNCHANGED << orders, hist, loc >>
          /\ IF Reported(outcome)
               THEN Send(p, [Resp(201, "created") EXCEPT !.orderId = o.orderId,
                                                         !.total = o.total], {o.total})
               ELSE Answer(p, Resp(500, "Failed to save order"))
  /\ UNCHANGED << sess, mem, products, delivered, now, nextOrderOid, nextProductOid >>

CreateOrder(p) ==
  \/ \E req \in OrderRequests : CreateOrderStart(p, req)
  \/ CreateOrderPrice(p)
  \/ CreateOrderNextId(p)
  \/ CreateOrderBuild(p)
  \/ CreateOrderInsert(p)

----------------------------------------------------------------------------
(* POST /api/orders/:id/deliver: markOrderDelivered *)

\* the order is in both collections and no call that inserted its delivered
\* copy is still on its way to the delete or the compensation
Stranded(id) ==
  /\ id \in Ids(orders) /\ id \in Ids(delivered)
  /\ \A q \in Procs : ~(pc[q] \in {"md_delete", "md_undo"} /\ loc[q].id = id)

\* primitive.ObjectIDFromHex on the path id; the handler begins at `from`; for
\* the properties also whether the order had been delivered with success
\* (late) or stood in both collections (both) when the call began
MarkDeliveredBegin(p, id, from) ==
  /\ pc[p] = from
  /\ loc' = [loc EXCEPT ![p] = [IdleLoc EXCEPT !.op = "markDelivered", !.id = id,
                                               !.late = id \in hist.okDelivered,
                                               !.both = Stranded(id),
                                               !.auth = loc[p].auth]]
  /\ IF id = BadId
       THEN Answer(p, Resp(400, "Invalid order ID format"))
       ELSE Goto(p, "md_find")
  /\ UNCHANGED << sess, mem, store, now, nextOrderOid, nextProductOid, faults, hist >>

MarkDeliveredStart(p, id) == MarkDeliveredBegin(p, id, "idle")

\* ordersCollection.FindOne by _id and its reply
MarkDeliveredFind(p) ==
  /\ pc[p] = "md_find"
  /\ \E outcome \in ReadOutcomes :
       LET hit == FindById(orders, loc[p].id)
       IN Count(outcome) /\ IF outcome # "ok"
            THEN /\ Answer(p, Resp(500, "Failed to fetch order"))
                 /\ UNCHANGED loc
            ELSE IF hit = {}
              THEN /\ Answer(p, Resp(404, "Order not found"))
                   /\ UNCHANGED loc
              ELSE /\ loc' = [loc EXCEPT ![p].order = CHOOSE r \in hit : TRUE]
                   /\ Goto(p, "md_stamp")
  /\ UNCHANGED << sess, mem, store, now, nextOrderOid, nextProductOid, hist >>

\* deliveredAt := time.Now() and the delivered document, once the order has
\* come back from the store
MarkDeliveredStamp(p) ==
  /\ pc[p] = "md_stamp"
  /\ loc' = [loc EXCEPT ![p].deliveredAt = now]
  /\ Goto(p, "md_insert")
  /\ UNCHANGED << sess, mem, store, now, nextOrderOid, nextProductOid, faults, hist >>

\* deliveredCollection.InsertOne
MarkDeliveredInsert(p) ==
  /\ pc[p] = "md_insert"
  /\ \E outcome \in WriteOutcomes :
       LET doc == DeliveredOrder(loc[p].order, loc[p].deliveredAt)
           dup == DuplicateKey(delivered, doc)
       IN /\ Count(outcome)
          /\ delivered' = IF Applied(outcome) /\ ~dup THEN delivered \cup {doc}
                          ELSE delivered
          /\ IF Reported(outcome) /\ ~dup
               THEN Goto(p, "md_delete")
               ELSE Answer(p, Resp(500, "Failed to save delivered order"))
  /\ UNCHANGED << sess, mem, products, orders, now, nextOrderOid, nextProductOid, loc, hist >>

\* ordersCollection.DeleteOne
MarkDeliveredDelete(p) ==
  /\ pc[p] = "md_delete"
  /\ \E outcome \in WriteOutcomes :
       /\ Count(outcome)
       /\ orders' = IF Applied(outcome) THEN DeleteById(orders, loc[p].id) ELSE orders
       /\ IF Reported(outcome)
            THEN /\ Answer(p, [Resp(200, "Order marked as delivered")
                                 EXCEPT !.orderId = loc[p].order.orderId,
                                        !.at = loc[p].deliveredAt])
                 /\ hist' = [hist EXCEPT !.okDelivered = @ \cup {loc[p].id}]
            ELSE /\ Goto(p, "md_undo")
                 /\ UNCHANGED hist
  /\ UNCHANGED << sess, mem, products, delivered, now, nextOrderOid, nextProductOid, loc >>

\* the compensation: deliveredCollection.DeleteOne, its result dropped; for the
\* properties also whether the delete took the delivered copy out ("undone")
\* or left it ("left")
MarkDeliveredUndo(p) ==
  /\ pc[p] = "md_undo"
  /\ \E outcome \in WriteOutcomes :
       /\ Count(outcome)
       /\ delivered' = IF Applied(outcome) THEN DeleteById(delivered, loc[p].id)
                       ELSE delivered
       /\ loc' = [loc EXCEPT ![p].comp = IF Applied(outcome) THEN "undone" ELSE "left"]
  /\ Answer(p, Resp(500, "Failed to remove order from active orders"))
  /\ UNCHANGED << sess, mem, products, orders, now, nextOrderOid, nextProductOid, hist >>

MarkOrderDelivered(p) ==
  \/ \E id \in OrderIdParams : MarkDeliveredStart(p, id)
  \/ MarkDeliveredFind(p)
  \/ MarkDeliveredStamp(p)
  \/ MarkDeliveredInsert(p)
  \/ MarkDeliveredDelete(p)
  \/ MarkDeliveredUndo(p)

----------------------------------------------------------------------------
(* POST, PUT, DELETE /api/products: createProduct, updateProduct, deleteProduct *)

\* the form fields, validated (name and category are taken as given); the
\* handler begins at `from`
CreateProductBegin(p, price, from) ==
  /\ pc[p] = from
  /\ nextProductOid + InFlight("createProduct") <= NumDefaults + MaxNewProducts
  /\ loc' = [loc EXCEPT ![p] = [IdleLoc EXCEPT !.op = "createProduct", !.price = price,
                                               !.auth = loc[p].auth]]
  /\ IF LeqZero(price)
       THEN Answer(p, Resp(400, "Name, category, and valid price are required"))
       ELSE Goto(p, "cp_nextid")
  /\ UNCHANGED << sess, mem, store, now, nextOrderOid, nextProductOid, faults, hist >>

CreateProductStart(p, price) == CreateProductBegin(p, price, "idle")

\* getNextProductID, then the Product struct with a new ObjectID
CreateProductNextId(p) ==
  /\ pc[p] = "cp_nextid"
  /\ \E outcome \in ReadOutcomes :
       /\ Count(outcome)
       /\ IF outcome = "ok"
         THEN /\ loc' = [loc EXCEPT ![p] =
                           [@ EXCEPT !.nextId = GetNextProductID(products),
                                     !.id = nextProductOid]]
              /\ nextProductOid' = nextProductOid + 1
              /\ Goto(p, "cp_insert")
         ELSE /\ Answer(p, Resp(500, "Failed to generate product ID"))
              /\ UNCHANGED << loc, nextProductOid >>
  /\ UNCHANGED << sess, mem, store, now, nextOrderOid, hist >>

\* productsCollection.InsertOne
CreateProductInsert(p) ==
  /\ pc[p] = "cp_insert"
  /\ \E outcome \in WriteOutcomes :
       LET doc == NewProduct(loc[p].id, loc[p].nextId, loc[p].price)
       IN /\ Count(outcome)
          /\ IF Applied(outcome)
               THEN /\ products' = products \cup {Placed(doc, products)}
                    /\ hist' = [hist EXCEPT !.productLog = Append(@, doc.productId),
                                            !.created = @ \cup {doc.id},
                                            !.racyProducts = IF loc[p].stale THEN @ \cup {doc.id}
                                                             ELSE @]
                    /\ loc' = Overtake(p, {"cp_insert"})
               ELSE UNCHANGED << products, hist, loc >>
          /\ IF Reported(outcome)
               THEN Goto(p, "cp_lock")
               ELSE Answer(p, Resp(500, "Failed to save product"))
  /\ UNCHANGED << sess, mem, orders, delivered, now, nextOrderOid, nextProductOid >>

\* productsMu.Lock(); products = append(products, product)
CreateProductAppend(p) ==
  /\ pc[p] = "cp_lock"
  /\ CanLock(productsMu)
  /\ productsMu' = Lock(productsMu, p)
  /\ cache' = cache \cup {NewProduct(loc[p].id, loc[p].nextId, loc[p].price)}
  /\ Goto(p, "cp_unlock")
  /\ UNCHANGED << sess, store, now, nextOrderOid, nextProductOid, loc, faults, hist >>

\* productsMu.Unlock(); c.JSON(http.StatusCreated, product)
CreateProductFinish(p) ==
  /\ pc[p] = "cp_unlock"
  /\ productsMu' = Unlock(productsMu, p)
  /\ Send(p, [Resp(201, "created") EXCEPT !.orderId = loc[p].nextId], {loc[p].price})
  /\ UNCHANGED << sess, cache, store, now, nextOrderOid, nextProductOid, loc, faults, hist >>

\* createProduct after the form fields
CreateProductRest(p) ==
  \/ CreateProductNextId(p)
  \/ CreateProductInsert(p)
  \/ CreateProductAppend(p)
  \/ CreateProductFinish(p)

CreateProduct(p) ==
  \/ \E price \in PriceInputs : CreateProductStart(p, price)
  \/ CreateProductRest(p)

\* productsCollection.FindOneAndUpdate by _id, $set of the form fields; the
\* handler begins at `from`
UpdateProductBegin(p, id, price, from) ==
  /\ pc[p] = from
  /\ loc' = [loc EXCEPT ![p] = [IdleLoc EXCEPT !.op = "updateProduct", !.id = id,
                                               !.price = price, !.auth = loc[p].auth]]
  /\ IF id = BadId
       THEN /\ Answer(p, Resp(400, "Invalid product ID format"))
            /\ UNCHANGED << products, faults >>
       ELSE \E outcome \in WriteOutcomes :
              LET hit == FindById(products, id)
              IN /\ Count(outcome)
                 /\ products' = IF Applied(outcome)
                                  THEN { IF r.id = id THEN [r EXCEPT !.price = price] ELSE r
                                         : r \in products }
                                  ELSE products
                 /\ IF ~Reported(outcome)
                      THEN Answer(p, Resp(500, "Failed to update product"))
                      ELSE IF hit = {}
                        THEN Answer(p, Resp(404, "Product not found"))
                        ELSE Answer(p, Resp(200, "Product updated successfully"))
  /\ UNCHANGED << sess, mem, orders, delivered, now, nextOrderOid, nextProductOid, hist >>

UpdateProduct(p, id, price) == UpdateProductBegin(p, id, price, "idle")

\* productsCollection.DeleteOne by _id; the handler begins at `from`
DeleteProductBegin(p, id, from) ==
  /\ pc[p] = from
  /\ loc' = [loc EXCEPT ![p] = [IdleLoc EXCEPT !.op = "deleteProduct", !.id = id,
                                               !.auth = loc[p].auth]]
  /\ IF id = BadId
       THEN /\ Answer(p, Resp(400, "Invalid product ID format"))
            /\ UNCHANGED << products, faults >>
       ELSE \E outcome \in WriteOutcomes :
              /\ Count(outcome)
              /\ products' = IF Applied(outcome) THEN DeleteById(products, id) ELSE products
              /\ IF Reported(outcome)
                   THEN Answer(p, Resp(200, "Product deleted successfully"))
                   ELSE Answer(p, Resp(500, "Failed to delete product"))
  /\ UNCHANGED << sess, mem, orders, delivered, now, nextOrderOid, nextProductOid, hist >>

DeleteProduct(p, id) == DeleteProductBegin(p, id, "idle")

Catalog(p) ==
  \/ CreateProduct(p)
  \/ \E id \in ProductIdParams, price \in UpdatePrices : UpdateProduct(p, id, price)
  \/ \E id \in ProductIdParams : DeleteProduct(p, id)

----------------------------------------------------------------------------
(* GET /api/products, /api/orders, /api/orders/:id, /api/delivered *)

\* productsCollection.Find: open to every customer
GetProducts(p) ==
  /\ pc[p] = "idle"
  /\ loc' = [loc EXCEPT ![p] = [IdleLoc EXCEPT !.op = "getProducts"]]
  /\ \E outcome \in ReadOutcomes :
       /\ Count(outcome)
       /\ IF outcome = "ok"
            THEN Send(p, [Resp(200, "products") EXCEPT !.served = Ids(products)],
                      { r.price : r \in products })
            ELSE Answer(p, Resp(500, "Failed to fetch products"))
  /\ UNCHANGED << sess, mem, store, now, nextOrderOid, nextProductOid, hist >>

\* getProduct: FindOne by _id when the path id parses as an ObjectID, otherwise
\* FindOne by productId with the path id, a string, as the filter value
GetProduct(p, param) ==
  /\ pc[p] = "idle"
  /\ loc' = [loc EXCEPT ![p] = [IdleLoc EXCEPT !.op = "getProduct", !.id = param.n,
                                               !.text = ~IsObjectIDHex(param)]]
  /\ \E outcome \in ReadOutcomes :
       /\ Count(outcome)
       /\ IF ~IsObjectIDHex(param)
            THEN LET hit == FindByProductIdValue(products, BsonString(param.n))
                 IN IF outcome = "ok" /\ hit # {}
                      THEN Send(p, [Resp(200, "product") EXCEPT !.served = Ids(hit)],
                                { r.price : r \in hit })
                      ELSE Answer(p, Resp(404, "Product not found"))
            ELSE LET hit == FindById(products, param.n)
                 IN IF outcome # "ok"
                      THEN Answer(p, Resp(500, "Failed to fetch product"))
                      ELSE IF hit = {}
                        THEN Answer(p, Resp(404, "Product not found"))
                        ELSE Send(p, [Resp(200, "product") EXCEPT !.served = Ids(hit)],
                                  { r.price : r \in hit })
  /\ UNCHANGED << sess, mem, store, now, nextOrderOid, nextProductOid, hist >>

\* ordersCollection.Find; the handler begins at `from`
GetOrdersBegin(p, from) ==
  /\ pc[p] = from
  /\ loc' = [loc EXCEPT ![p] = [IdleLoc EXCEPT !.op = "getOrders", !.auth = loc[p].auth]]
  /\ \E outcome \in ReadOutcomes :
       /\ Count(outcome)
       /\ IF outcome = "ok"
            THEN Send(p, [Resp(200, "orders") EXCEPT !.served = Ids(orders)],
                      { r.total : r \in orders })
            ELSE Answer(p, Resp(500, "Failed to fetch orders"))
  /\ UNCHANGED << sess, mem, store, now, nextOrderOid, nextProductOid, hist >>

GetOrders(p) == GetOrdersBegin(p, "idle")

\* primitive.ObjectIDFromHex, then ordersCollection.FindOne by _id; the handler
\* begins at `from`
GetOrderBegin(p, id, from) ==
  /\ pc[p] = from
  /\ loc' = [loc EXCEPT ![p] = [IdleLoc EXCEPT !.op = "getOrder", !.id = id,
                                               !.auth = loc[p].auth]]
  /\ IF id = BadId
       THEN /\ Answer(p, Resp(400, "Invalid order ID format"))
            /\ UNCHANGED faults
       ELSE \E outcome \in ReadOutcomes :
              /\ Count(outcome)
              /\ IF outcome # "ok"
                   THEN Answer(p, Resp(500, "Failed to fetch order"))
                   ELSE IF FindById(orders, id) = {}
                     THEN Answer(p, Resp(404, "Order not found"))
                     ELSE Send(p, [Resp(200, "order") EXCEPT !.served = {id}],
                               { r.total : r \in FindById(orders, id) })
  /\ UNCHANGED << sess, mem, store, now, nextOrderOid, nextProductOid, hist >>

GetOrder(p, id) == GetOrderBegin(p, id, "idle")

\* deliveredCollection.Find; the handler begins at `from`
GetDeliveredOrdersBegin(p, from) ==
  /\ pc[p] = from
  /\ loc' = [loc EXCEPT ![p] = [IdleLoc EXCEPT !.op = "getDeliveredOrders",
                                               !.auth = loc[p].auth]]
  /\ \E outcome \in ReadOutcomes :
       /\ Count(outcome)
       /\ IF outcome = "ok"
            THEN Send(p, [Resp(200, "delivered") EXCEPT !.served = Ids(delivered)],
                      { r.total : r \in delivered })
            ELSE Answer(p, Resp(500, "Failed to fetch delivered orders"))
  /\ UNCHANGED << sess, mem, store, now, nextOrderOid, nextProductOid, hist >>

GetDeliveredOrders(p) == GetDeliveredOrdersBegin(p, "idle")

----------------------------------------------------------------------------
(* POST /api/auth/login: handleLogin *)

\* bind the body, compare the credentials, generateToken: rand.Read fails
\* (500, no session) or delivers 32 fresh bytes, a token no earlier call
\* returned
HandleLoginStart(p, body) ==
  /\ pc[p] = "idle"
  /\ IF ~body.bound
       THEN /\ Answer(p, Resp(400, "Invalid request"))
            /\ loc' = [loc EXCEPT ![p] = [IdleLoc EXCEPT !.op = "login"]]
            /\ UNCHANGED nextToken
       ELSE IF body.username # AdminUsername \/ body.password # AdminPassword
         THEN /\ Answer(p, Resp(401, "Invalid credentials"))
              /\ loc' = [loc EXCEPT ![p] =
                           [IdleLoc EXCEPT !.op = "login",
                                           !.auth = [NoAuth EXCEPT !.body = body]]]
              /\ UNCHANGED nextToken
         ELSE \E made \in BOOLEAN :
                IF made
                  THEN /\ nextToken <= MaxSessions
                       /\ loc' = [loc EXCEPT ![p] =
                                    [IdleLoc EXCEPT !.op = "login",
                                                    !.auth = [NoAuth EXCEPT !.tok = nextToken,
                                                                            !.body = body]]]
                       /\ nextToken' = nextToken + 1
                       /\ Goto(p, "li_lock")
                  ELSE /\ Answer(p, Resp(500, "Failed to create session"))
                       /\ loc' = [loc EXCEPT ![p] =
                                    [IdleLoc EXCEPT !.op = "login",
                                                    !.auth = [NoAuth EXCEPT !.body = body]]]
                       /\ UNCHANGED nextToken
  /\ UNCHANGED << mem, store, now, nextOrderOid, nextProductOid, faults, activeSessions,
                  sessionsMu, sweepPc, hist >>

\* sessionsMu.Lock(); activeSessions[token] = time.Now().Add(24 * time.Hour)
HandleLoginStore(p) ==
  /\ pc[p] = "li_lock"
  /\ CanLock(sessionsMu)
  /\ sessionsMu' = Lock(sessionsMu, p)
  /\ activeSessions' = Issue(activeSessions, loc[p].auth.tok, now)
  /\ loc' = [loc EXCEPT ![p].auth.at = now]
  /\ hist' = [hist EXCEPT !.issued = [t \in DOMAIN @ \cup {loc[p].auth.tok} |->
                                         IF t = loc[p].auth.tok THEN now ELSE @[t]]]
  /\ Goto(p, "li_unlock")
  /\ UNCHANGED << mem, store, now, nextOrderOid, nextProductOid, faults, nextToken, sweepPc >>

\* sessionsMu.Unlock(); the cookie and the response
HandleLoginFinish(p) ==
  /\ pc[p] = "li_unlock"
  /\ sessionsMu' = Unlock(sessionsMu, p)
  /\ Answer(p, [Resp(200, "Login successful") EXCEPT !.token = loc[p].auth.tok,
                                                     !.expiresIn = ExpiresIn])
  /\ hist' = [hist EXCEPT !.answered = @ \cup {loc[p].auth.tok}]
  /\ UNCHANGED << mem, store, now, nextOrderOid, nextProductOid, faults, activeSessions,
                  nextToken, sweepPc, loc >>

HandleLogin(p) ==
  \/ \E body \in LoginRequests : HandleLoginStart(p, body)
  \/ HandleLoginStore(p)
  \/ HandleLoginFinish(p)

----------------------------------------------------------------------------
(* POST /api/auth/logout: handleLogout *)

\* what the session map holds for the token of the request of p; for
\* the properties also whether a logout had deleted the token by then and
\* whether a login of this process had issued it
Seen(p) ==
  [loc[p].auth EXCEPT !.exists = Lookup(activeSessions, loc[p].auth.tok).exists,
                      !.expiry = Lookup(activeSessions, loc[p].auth.tok).expiry,
                      !.afterLogout = loc[p].auth.tok \in hist.revoked,
                      !.known = loc[p].auth.tok \in DOMAIN hist.issued]

\* take the token from the request; without one only the cookie is cleared
HandleLogoutStart(p, h, c) ==
  /\ pc[p] = "idle"
  /\ loc' = [loc EXCEPT ![p] =
               [IdleLoc EXCEPT !.op = "logout",
                               !.auth = [NoAuth EXCEPT !.tok = EndpointToken(h, c)]]]
  /\ IF EndpointToken(h, c) # NoToken
       THEN Goto(p, "lo_lock")
       ELSE Answer(p, Resp(200, "Logged out successfully"))
  /\ UNCHANGED << sess, mem, store, now, nextOrderOid, nextProductOid, faults, hist >>

\* sessionsMu.Lock(); delete(activeSessions, token); for the properties also
\* what the map held for the token at that time and whether an earlier logout
\* had deleted it
HandleLogoutDelete(p) ==
  /\ pc[p] = "lo_lock"
  /\ CanLock(sessionsMu)
  /\ sessionsMu' = Lock(sessionsMu, p)
  /\ activeSessions' = Revoke(activeSessions, loc[p].auth.tok)
  /\ loc' = [loc EXCEPT ![p].auth = [Seen(p) EXCEPT !.at = now]]
  /\ hist' = [hist EXCEPT !.revoked = @ \cup ({loc[p].auth.tok} \ {Forged, BearerWord})]
  /\ Goto(p, "lo_unlock")
  /\ UNCHANGED << mem, store, now, nextOrderOid, nextProductOid, faults, nextToken, sweepPc >>

\* sessionsMu.Unlock(); the cookie cleared and the response
HandleLogoutFinish(p) ==
  /\ pc[p] = "lo_unlock"
  /\ sessionsMu' = Unlock(sessionsMu, p)
  /\ Answer(p, Resp(200, "Logged out successfully"))
  /\ UNCHANGED << mem, store, now, nextOrderOid, nextProductOid, faults, activeSessions,
                  nextToken, sweepPc, loc, hist >>

HandleLogout(p) ==
  \/ \E h \in Headers, c \in Cookies : HandleLogoutStart(p, h, c)
  \/ HandleLogoutDelete(p)
  \/ HandleLogoutFinish(p)

----------------------------------------------------------------------------
(* GET /api/auth/check: checkAuth *)

\* take the token from the request; without one the answer is 401 at once
CheckAuthStart(p, h, c) ==
  /\ pc[p] = "idle"
  /\ loc' = [loc EXCEPT ![p] =
               [IdleLoc EXCEPT !.op = "checkAuth",
                               !.auth = [NoAuth EXCEPT !.tok = EndpointToken(h, c)]]]
  /\ IF EndpointToken(h, c) # NoToken
       THEN Goto(p, "ca_lock")
       ELSE Answer(p, Resp(401, "not authenticated"))
  /\ UNCHANGED << sess, mem, store, now, nextOrderOid, nextProductOid, faults, hist >>

\* sessionsMu.RLock(); expiry, exists := activeSessions[token]
CheckAuthRead(p) ==
  /\ pc[p] = "ca_lock"
  /\ CanRLock(sessionsMu)
  /\ sessionsMu' = RLock(sessionsMu, p)
  /\ loc' = [loc EXCEPT ![p].auth = Seen(p)]
  /\ Goto(p, "ca_unlock")
  /\ UNCHANGED << mem, store, now, nextOrderOid, nextProductOid, faults, activeSessions,
                  nextToken, sweepPc, hist >>

\* sessionsMu.RUnlock()
CheckAuthRelease(p) ==
  /\ pc[p] = "ca_unlock"
  /\ sessionsMu' = RUnlock(sessionsMu, p)
  /\ Goto(p, "ca_decide")
  /\ UNCHANGED << mem, store, now, nextOrderOid, nextProductOid, faults, activeSessions,
                  nextToken, sweepPc, loc, hist >>

\* the comparison with time.Now(), read with no lock held, and the response
CheckAuthFinish(p) ==
  /\ pc[p] = "ca_decide"
  /\ loc' = [loc EXCEPT ![p].auth.at = now]
  /\ IF CheckAuthenticated(loc[p].auth.exists, loc[p].auth.expiry, now)
       THEN Answer(p, Resp(200, "authenticated"))
       ELSE Answer(p, Resp(401, "not authenticated"))
  /\ UNCHANGED << sess, mem, store, now, nextOrderOid, nextProductOid, faults, hist >>

CheckAuth(p) ==
  \/ \E h \in Headers, c \in Cookies : CheckAuthStart(p, h, c)
  \/ CheckAuthRead(p)
  \/ CheckAuthRelease(p)
  \/ CheckAuthFinish(p)

----------------------------------------------------------------------------
(* The middleware of the protected routes: requireAuth *)

ReadRoutes == {"getOrders", "getOrder", "getDeliveredOrders"}

WriteRoutes == {"markDelivered", "createProduct", "updateProduct", "deleteProduct"}

ProtectedRoutes == ReadRoutes \cup WriteRoutes

\* take the token from the request; without one the answer is 401 before the
\* session map is looked at
RequireAuthStart(p, route, h, c) ==
  /\ pc[p] = "idle"
  /\ loc' = [loc EXCEPT ![p] =
               [IdleLoc EXCEPT !.op = "requireAuth",
                               !.auth = [NoAuth EXCEPT !.route = route,
                                                       !.tok = GuardToken(h, c)]]]
  /\ IF GuardToken(h, c) # NoToken
       THEN Goto(p, "ra_lock")
       ELSE Answer(p, Resp(401, "Authentication required"))
  /\ UNCHANGED << sess, mem, store, now, nextOrderOid, nextProductOid, faults, hist >>

\* sessionsMu.RLock(); expiry, exists := activeSessions[token]
RequireAuthRead(p) ==
  /\ pc[p] = "ra_lock"
  /\ CanRLock(sessionsMu)
  /\ sessionsMu' = RLock(sessionsMu, p)
  /\ loc' = [loc EXCEPT ![p].auth = Seen(p)]
  /\ Goto(p, "ra_unlock")
  /\ UNCHANGED << mem, store, now, nextOrderOid, nextProductOid, faults, activeSessions,
                  nextToken, sweepPc, hist >>

\* sessionsMu.RUnlock()
RequireAuthRelease(p) ==
  /\ pc[p] = "ra_unlock"
  /\ sessionsMu' = RUnlock(sessionsMu, p)
  /\ Goto(p, "ra_decide")
  /\ UNCHANGED << mem, store, now, nextOrderOid, nextProductOid, faults, activeSessions,
                  nextToken, sweepPc, loc, hist >>

\* the comparison with time.Now(), read with no lock held; c.Next() or 401
RequireAuthFinish(p) ==
  /\ pc[p] = "ra_decide"
  /\ loc' = [loc EXCEPT ![p].auth.at = now]
  /\ IF GuardAdmits(loc[p].auth.exists, loc[p].auth.expiry, now)
       THEN Goto(p, "admitted")
       ELSE Answer(p, Resp(401, "Invalid or expired session"))
  /\ UNCHANGED << sess, mem, store, now, nextOrderOid, nextProductOid, faults, hist >>

RequireAuth(p, routes) ==
  \/ \E route \in routes, h \in Headers, c \in Cookies : RequireAuthStart(p, route, h, c)
  \/ RequireAuthRead(p)
  \/ RequireAuthRelease(p)
  \/ RequireAuthFinish(p)

\* c.Next(): the handler of the route the request asked for
Admitted(p, route) == pc[p] = "admitted" /\ loc[p].auth.route = route

AdmittedGetOrders(p) ==
  Admitted(p, "getOrders") /\ GetOrdersBegin(p, "admitted")

AdmittedGetOrder(p) ==
  Admitted(p, "getOrder") /\ \E id \in OrderIdParams : GetOrderBegin(p, id, "admitted")

AdmittedGetDeliveredOrders(p) ==
  Admitted(p, "getDeliveredOrders") /\ GetDeliveredOrdersBegin(p, "admitted")

AdmittedMarkDelivered(p) ==
  Admitted(p, "markDelivered")
    /\ \E id \in OrderIdParams : MarkDeliveredBegin(p, id, "admitted")

AdmittedCreateProduct(p) ==
  Admitted(p, "createProduct")
    /\ \E price \in PriceInputs : CreateProductBegin(p, price, "admitted")

AdmittedUpdateProduct(p) ==
  Admitted(p, "updateProduct")
    /\ \E id \in ProductIdParams, price \in UpdatePrices :
         UpdateProductBegin(p, id, price, "admitted")

AdmittedDeleteProduct(p) ==
  Admitted(p, "deleteProduct")
    /\ \E id \in ProductIdParams : DeleteProductBegin(p, id, "admitted")

----------------------------------------------------------------------------
(* The hourly sweep: cleanupSessions *)

\* the ticker fires: sessionsMu.Lock(), now := time.Now(), the delete loop
SweepPass ==
  /\ sweepPc = "waiting"
  /\ CanLock(sessionsMu)
  /\ sessionsMu' = Lock(sessionsMu, Sweeper)
  /\ activeSessions' = SweepExpired(activeSessions, now)
  /\ hist' = [hist EXCEPT !.sweptAt = now]
  /\ sweepPc' = "swept"
  /\ UNCHANGED << mem, store, now, nextOrderOid, nextProductOid, pc, loc, resp, faults,
                  nextToken >>

\* sessionsMu.Unlock(), back to the ticker
SweepRelease ==
  /\ sweepPc = "swept"
  /\ sessionsMu' = Unlock(sessionsMu, Sweeper)
  /\ sweepPc' = "waiting"
  /\ hist' = [hist EXCEPT !.sweptAt = 0]
  /\ UNCHANGED << mem, store, now, nextOrderOid, nextProductOid, pc, loc, resp, faults,
                  activeSessions, nextToken >>

CleanupSessions ==
  \/ SweepPass
  \/ SweepRelease

----------------------------------------------------------------------------
(* The environment *)

\* the handler has answered: the goroutine ends
Return(p) ==
  /\ pc[p] = "done"
  /\ pc' = [pc EXCEPT ![p] = "idle"]
  /\ loc' = [loc EXCEPT ![p] = IdleLoc]
  /\ resp' = [resp EXCEPT ![p] = NoResp]
  /\ UNCHANGED << sess, mem, store, now, nextOrderOid, nextProductOid, faults, hist >>

\* time.Now() moves on, up to `limit`
Advance(limit) ==
  /\ now < limit
  /\ now' = now + 1
  /\ UNCHANGED << sess, mem, store, nextOrderOid, nextProductOid, pc, loc, resp, faults, hist >>

Tick == Advance(MaxClock)

\* the clock over the life of a session
Elapse == Advance(MaxSessionClock)

\* loadProductsFromDB with initializeDefaultProducts: the Find and the decode
\* end as `rd`; when they fail or find nothing, the InsertMany of the defaults
\* (each with a new ObjectID) ends as `wr` and the slice is set to the
\* defaults, otherwise the slice is set to the products found
LoadProductsFromDB(rd, wr) ==
  IF rd = "ok" /\ products # {}
    THEN /\ cache' = ProductsList(products)
         /\ UNCHANGED << products, nextProductOid, faults >>
    ELSE /\ nextProductOid + NumDefaults - 1 <= NumDefaults * (1 + MaxReseeds) + MaxNewProducts
         /\ products' = IF Applied(wr)
                          THEN products \cup SeedDocs(nextProductOid, NextPos(products) - 1)
                          ELSE products
         /\ nextProductOid' = nextProductOid + NumDefaults
         /\ cache' = DefaultCache
         /\ faults' = faults + (IF rd = "ok" THEN 0 ELSE 1) + (IF wr = "ok" THEN 0 ELSE 1)

\* the process dies and main() runs again: every handler in flight is gone
\* and no mutex is held, the store keeps what was written, the session map
\* starts empty, and the catalog load runs before the router takes requests
Crash ==
  /\ pc' = [p \in Procs |-> "idle"]
  /\ loc' = [p \in Procs |-> IdleLoc]
  /\ resp' = [p \in Procs |-> NoResp]
  /\ activeSessions' = NoSessions
  /\ sessionsMu' = Unlocked
  /\ productsMu' = Unlocked
  /\ sweepPc' = "waiting"
  /\ hist' = [hist EXCEPT !.issued = NoSessions, !.sweptAt = 0]
  /\ \E rd \in ReadOutcomes :
       \E wr \in (IF faults + (IF rd = "ok" THEN 0 ELSE 1) < MaxFaults
                    THEN WriteKinds ELSE {"ok"}) :
         LoadProductsFromDB(rd, wr)
  /\ UNCHANGED << orders, delivered, now, nextOrderOid, nextToken >>

\* the store answers again: the budget of failing store calls starts anew
Recover ==
  /\ faults = MaxFaults
  /\ \A p \in Procs : pc[p] \in {"idle", "done"}
  /\ faults' = 0
  /\ UNCHANGED << sess, mem, store, now, nextOrderOid, nextProductOid, pc, loc, resp, hist >>

OrderStep(p) ==
  \/ CreateOrder(p)
  \/ MarkOrderDelivered(p)
  \/ Return(p)

CatalogStep(p) ==
  \/ Catalog(p)
  \/ Return(p)

CreateStep(p) ==
  \/ CreateOrder(p)
  \/ CreateProduct(p)
  \/ Return(p)

\* one step of a request on the router of main(), with every input a client
\* can send: the open routes, the auth routes, and the protected routes behind
\* requireAuth
RouterStep(p) ==
  \/ GetProducts(p)
  \/ \E param \in ProductPathIds : GetProduct(p, param)
  \/ \E req \in AnyOrderRequests : CreateOrderStart(p, req)
  \/ CreateOrderPrice(p)
  \/ CreateOrderNextId(p)
  \/ CreateOrderBuild(p)
  \/ CreateOrderInsert(p)
  \/ HandleLogin(p)
  \/ HandleLogout(p)
  \/ CheckAuth(p)
  \/ RequireAuth(p, ProtectedRoutes)
  \/ AdmittedGetOrders(p)
  \/ AdmittedGetOrder(p)
  \/ AdmittedGetDeliveredOrders(p)
  \/ AdmittedMarkDelivered(p)
  \/ MarkDeliveredFind(p)
  \/ MarkDeliveredStamp(p)
  \/ MarkDeliveredInsert(p)
  \/ MarkDeliveredDelete(p)
  \/ MarkDeliveredUndo(p)
  \/ Admitted(p, "createProduct")
       /\ \E price \in AnyPrices : CreateProductBegin(p, price, "admitted")
  \/ CreateProductRest(p)
  \/ Admitted(p, "updateProduct")
       /\ \E id \in ProductIdParams, price \in AnyPrices :
            UpdateProductBegin(p, id, price, "admitted")
  \/ AdmittedDeleteProduct(p)
  \/ Return(p)

\* the whole program: every route of the router on any goroutine, the sweep
\* beside them, the clock, and the restart of the process
Next ==
  \/ \E p \in Procs : RouterStep(p)
  \/ CleanupSessions
  \/ Elapse
  \/ Crash

Spec == Init /\ [][Next]_vars

(***************************************************************************)
(* The program in parts.  The catalog handlers write only products; the    *)
(* order handlers write only orders and delivered and read products in the *)
(* price loop.  A property of one part is checked in that part; a part     *)
(* that names a protected handler without requireAuth begins where the     *)
(* middleware has admitted the request.                                    *)
(***************************************************************************)

\* main() seeded the catalog
InitSeeded == Init /\ products = DefaultProducts

\* the order handlers, concurrent, on the seeded catalog
NextOrders ==
  \/ \E p \in Procs : OrderStep(p)
  \/ Tick
  \/ Crash

SpecOrders == InitSeeded /\ [][NextOrders]_vars

\* the catalog handlers, concurrent
NextCatalog ==
  \/ \E p \in Procs : CatalogStep(p)
  \/ Tick
  \/ Crash

SpecCatalog == Init /\ [][NextCatalog]_vars

\* the two create handlers, concurrent
NextCreate ==
  \/ \E p \in Procs : CreateStep(p)
  \/ Tick
  \/ Crash

SpecCreate == Init /\ [][NextCreate]_vars

\* requests served one at a time: one goroutine, the next request after the answer
NextOrdersSeq ==
  \/ OrderStep(1)
  \/ Tick
  \/ Crash

SpecOrdersSeq == Init /\ [][NextOrdersSeq]_vars

NextCatalogSeq ==
  \/ CatalogStep(1)
  \/ Tick
  \/ Crash

SpecCatalogSeq == Init /\ [][NextCatalogSeq]_vars

\* orders and catalog together on the seeded catalog, requests served one at a
\* time
NextShopSeq ==
  \/ OrderStep(1)
  \/ Catalog(1)

SpecShopSeq == InitSeeded /\ [][NextShopSeq]_vars

(***************************************************************************)
(* The session store.  Login, logout, the auth check and the sweep touch   *)
(* only the session map; the middleware stands in front of one protected   *)
(* route, the order list.                                                  *)
(***************************************************************************)

SessionStep(p) ==
  \/ HandleLogin(p)
  \/ HandleLogout(p)
  \/ CheckAuth(p)
  \/ RequireAuth(p, {"getOrders"})
  \/ AdmittedGetOrders(p)
  \/ Return(p)

NextSessions ==
  \/ \E p \in Procs : SessionStep(p)
  \/ CleanupSessions
  \/ Elapse
  \/ Crash

SpecSessions == InitSeeded /\ [][NextSessions]_vars

\* the session store with requests served one at a time, beside the sweep
NextSessionsSeq ==
  \/ SessionStep(1)
  \/ CleanupSessions
  \/ Elapse
  \/ Crash

SpecSessionsSeq == InitSeeded /\ [][NextSessionsSeq]_vars

\* the same with the scheduling of the sweep: the hourly ticker keeps firing and
\* a blocked sessionsMu.Lock() is served once the holders have released (a
\* waiting writer is not starved by sync.RWMutex), every holder releases the
\* mutex (no handler blocks between locking and unlocking), and the sweep
\* unlocks after its loop
SweepFairness ==
  /\ SF_vars(SweepPass)
  /\ WF_vars(SweepRelease)
  /\ \A p \in Procs :
       /\ WF_vars(HandleLoginFinish(p))
       /\ WF_vars(HandleLogoutFinish(p))
       /\ WF_vars(CheckAuthRelease(p))
       /\ WF_vars(RequireAuthRelease(p))

SpecSessionsSeqFair == SpecSessionsSeq /\ SweepFairness

\* the session store with concurrent requests, within one tick of the clock
NextSessionsNow ==
  \/ \E p \in Procs : SessionStep(p)
  \/ CleanupSessions

SpecSessionsNow == InitSeeded /\ [][NextSessionsNow]_vars

(***************************************************************************)
(* The router: the open routes, and the protected routes behind the        *)
(* middleware, served one request at a time on the seeded catalog; the     *)
(* catalog routes and the order routes apart.                              *)
(***************************************************************************)

CatalogRoutes == {"createProduct", "updateProduct", "deleteProduct"}

OrderRoutes == {"getOrders", "getOrder", "getDeliveredOrders", "markDelivered"}

RouterCatalogStep(p) ==
  \/ GetProducts(p)
  \/ HandleLogin(p)
  \/ RequireAuth(p, CatalogRoutes)
  \/ AdmittedCreateProduct(p)
  \/ AdmittedUpdateProduct(p)
  \/ AdmittedDeleteProduct(p)
  \/ CreateProductRest(p)
  \/ Return(p)

NextRouterCatalogSeq ==
  \/ RouterCatalogStep(1)
  \/ Elapse

SpecRouterCatalogSeq == InitSeeded /\ [][NextRouterCatalogSeq]_vars

RouterOrdersStep(p) ==
  \/ CreateOrder(p)
  \/ HandleLogin(p)
  \/ RequireAuth(p, OrderRoutes)
  \/ AdmittedGetOrders(p)
  \/ AdmittedGetOrder(p)
  \/ AdmittedGetDeliveredOrders(p)
  \/ AdmittedMarkDelivered(p)
  \/ MarkDeliveredFind(p)
  \/ MarkDeliveredStamp(p)
  \/ MarkDeliveredInsert(p)
  \/ MarkDeliveredDelete(p)
  \/ MarkDeliveredUndo(p)
  \/ Return(p)

NextRouterOrdersSeq ==
  \/ RouterOrdersStep(1)
  \/ Elapse

SpecRouterOrdersSeq == InitSeeded /\ [][NextRouterOrdersSeq]_vars

\* the order handlers and the lookup of one order, requests served one at a time
NextOrderLookupSeq ==
  \/ OrderStep(1)
  \/ \E id \in OrderIdParams : GetOrder(1, id)
  \/ Tick
  \/ Crash

SpecOrderLookupSeq == Init /\ [][NextOrderLookupSeq]_vars

\* orders created one at a time and delivered by concurrent calls, over any
\* number of failing store calls
NextDeliverPair ==
  \/ CreateOrder(1)
  \/ \E p \in Procs : MarkOrderDelivered(p)
  \/ \E p \in Procs : Return(p)
  \/ Recover

SpecDeliverPair == InitSeeded /\ [][NextDeliverPair]_vars

\* the catalog handlers and the lookup of one product, requests served one at a
\* time
NextProductLookupSeq ==
  \/ CatalogStep(1)
  \/ \E param \in ProductPathIds : GetProduct(1, param)
  \/ Tick
  \/ Crash

SpecProductLookupSeq == Init /\ [][NextProductLookupSeq]_vars

\* the order handlers on the seeded catalog with every body the binding takes,
\* requests served one at a time
NextOrderAnySeq ==
  \/ \E req \in AnyOrderRequests : CreateOrderStart(1, req)
  \/ CreateOrderPrice(1)
  \/ CreateOrderNextId(1)
  \/ CreateOrderBuild(1)
  \/ CreateOrderInsert(1)
  \/ MarkOrderDelivered(1)
  \/ Return(1)

SpecOrderAnySeq == InitSeeded /\ [][NextOrderAnySeq]_vars

\* the catalog handlers with every price field a client can send, requests
\* served one at a time
NextCatalogAnySeq ==
  \/ \E price \in AnyPrices : CreateProductStart(1, price)
  \/ CreateProductRest(1)
  \/ \E id \in ProductIdParams, price \in AnyPrices : UpdateProduct(1, id, price)
  \/ \E id \in ProductIdParams : DeleteProduct(1, id)
  \/ Return(1)

SpecCatalogAnySeq == Init /\ [][NextCatalogAnySeq]_vars

\* the catalog handlers, requests served one at a time, and starts of the
\* process with their catalog load
NextBootSeq ==
  \/ CatalogStep(1)
  \/ Crash

SpecBootSeq == Init /\ [][NextBootSeq]_vars

----------------------------------------------------------------------------
(* Properties *)

ActiveIds == Ids(orders)

DeliveredIds == Ids(delivered)

\* a mark-delivered call on id has started and not yet answered
DeliverInFlight(id) ==
  \E p \in Procs : /\ loc[p].op = "markDelivered"
                   /\ loc[p].id = id
                   /\ pc[p] \in {"md_find", "md_stamp", "md_insert", "md_delete", "md_undo"}

AllRecords == orders \cup delivered

\* C1: an order that was persisted is in the active orders or in the delivered
\* orders at every point of a mark-delivered transition, also when store calls
\* fail or time out or the process crashes between steps: never in neither.
C1_NeverInNoCollection ==
  \A id \in hist.persisted : id \in ActiveIds \cup DeliveredIds

\* C2: whenever no mark-delivered call is in flight for an order, the order is
\* in exactly one of the active orders and the delivered orders, also after
\* calls that ended in an error.
C2_ExactlyOneWhenQuiet ==
  \A id \in hist.persisted :
    ~DeliverInFlight(id) => ((id \in ActiveIds) # (id \in DeliveredIds))

\* the state a successful mark-delivered call leaves for the order
DeliveredFor(id) ==
  /\ id \notin ActiveIds
  /\ \E d \in delivered : /\ d.id = id
                          /\ d.status = "delivered"
                          /\ d.deliveredAt >= d.createdAt

\* a mark-delivered call that began after a successful one on the same identity
\* and has answered
LateAnswered(p) ==
  /\ pc[p] = "done"
  /\ loc[p].op = "markDelivered"
  /\ loc[p].late

\* C3 as claimed: after a mark-delivered call answered success the order is gone
\* from the active orders and is in the delivered orders with status delivered
\* and deliveredAt >= createdAt, and every later mark-delivered call on the same
\* identity answers NotFound.
C3_LaterCallNotFound ==
  /\ \A id \in hist.okDelivered : DeliveredFor(id)
  /\ \A p \in Procs : LateAnswered(p) => resp[p].code = 404

\* C3 as amended: the same, except that a later call whose read of the active
\* orders fails answers the internal error of that read; a later call answers
\* nothing else, and never gets past the read.
C3_LaterCallNotFoundOrReadError ==
  /\ \A id \in hist.okDelivered : DeliveredFor(id)
  /\ \A p \in Procs :
       /\ LateAnswered(p) =>
            \/ resp[p].code = 404
            \/ resp[p].code = 500 /\ resp[p].msg = "Failed to fetch order"
       /\ (loc[p].op = "markDelivered" /\ loc[p].late) => pc[p] \in {"md_find", "done"}

\* C3 witness: a later call on a delivered identity has answered NotFound
C3_Witness ==
  \E p \in Procs : /\ LateAnswered(p)
                   /\ resp[p].code = 404
                   /\ DeliveredFor(loc[p].id)

\* C4: for order creations executed one at a time, the first order created on
\* an empty store gets orderId 1 and each later one gets the orderId of the
\* order created just before it plus one.
C4_OrderIdsStepByOne ==
  \A i \in 1 .. Len(hist.orderLog) : hist.orderLog[i] = i

\* C5: with create-order and mark-delivered run one at a time, every orderId
\* assigned is greater than every orderId assigned before, so no two order
\* records of the active and delivered orders together carry one orderId, also
\* when earlier orders have been moved to the delivered orders.
C5_OrderIdsNeverReused ==
  /\ \A i, j \in 1 .. Len(hist.orderLog) : i < j => hist.orderLog[i] < hist.orderLog[j]
  /\ \A a, b \in AllRecords : a.id # b.id => a.orderId # b.orderId

\* n is the smallest positive integer greater than every member of S
SmallestAbove(n, S) ==
  /\ n >= 1
  /\ \A x \in S : n > x
  /\ \A m \in 1 .. (n - 1) : \E x \in S : x >= m

\* C6: each generator returns 1 when the store holds no record of its kind,
\* and otherwise the smallest positive integer greater than every identifier of
\* that kind in the store, the maximum plus one.  (Served one at a time, a
\* handler that holds the generator's answer still faces the store it read.)
C6_NextIsSmallestAbove ==
  \A p \in Procs :
    /\ pc[p] \in {"co_build", "co_insert"} =>
         SmallestAbove(loc[p].nextId, { r.orderId : r \in AllRecords })
    /\ pc[p] = "cp_insert" =>
         SmallestAbove(loc[p].nextId, { r.productId : r \in products })

SameOrderId(a, b) == a.id # b.id /\ a.orderId = b.orderId

SameProductId(a, b) == a.id # b.id /\ a.productId = b.productId

\* C7: two create-order calls can read the same maximum before either inserts
\* and then both persist one orderId, and likewise two create-product calls.
\* Handlers that hold an identifier read from the same collection hold the same
\* one, the insert takes both, and two records written by create calls share
\* an identifier only when one was inserted between the other's read and
\* insert.
C7_DuplicatesByRace ==
  /\ \A p, q \in Procs :
       /\ ({pc[p], pc[q]} \subseteq {"co_build", "co_insert"} /\ ~loc[p].stale /\ ~loc[q].stale)
            => loc[p].nextId = loc[q].nextId
       /\ (pc[p] = "cp_insert" /\ pc[q] = "cp_insert" /\ ~loc[p].stale /\ ~loc[q].stale)
            => loc[p].nextId = loc[q].nextId
  /\ \A a, b \in orders :
       SameOrderId(a, b) => (a.id \in hist.racyOrders \/ b.id \in hist.racyOrders)
  /\ \A a, b \in { r \in products : r.id \in hist.created } :
       SameProductId(a, b) => (a.id \in hist.racyProducts \/ b.id \in hist.racyProducts)

\* C7 witness: two active orders share an orderId and two products written by
\* create-product a productId
C7_Witness ==
  /\ \E a, b \in orders : SameOrderId(a, b)
  /\ \E a, b \in { r \in products : r.id \in hist.created } : SameProductId(a, b)

\* C8: for product creations executed one at a time, each product gets the
\* productId of the product created just before it plus one, starting at 1 on
\* an empty collection or at 9 on the seeded catalog.
C8_ProductIdsStepByOne ==
  \A i \in 1 .. Len(hist.productLog) :
    hist.productLog[i] = (IF hist.seeded THEN NumDefaults ELSE 0) + i

\* C9: with product create, update and delete run one at a time, every
\* productId assigned by create-product is greater than every productId
\* assigned before: none is assigned twice, also after its product was deleted.
C9_ProductIdsNeverReused ==
  \A i, j \in 1 .. Len(hist.productLog) :
    i < j => hist.productLog[i] < hist.productLog[j]

Created(p) ==
  /\ pc[p] = "done"
  /\ loc[p].op = "createOrder"
  /\ resp[p].code = 201

\* C10: the total of the order create-order answers and persists is the sum
\* over its items of the store's price for the productId times the quantity, an
\* item that matches no product adding 0; on the seeded catalog the first order,
\* of product 1 twice and product 3 once, has total 22.97, orderId 1 and status
\* pending.
C10_TotalIsPriceTimesQuantity ==
  \A p \in Procs :
    Created(p) =>
      /\ resp[p].total = loc[p].expect
      /\ \A o \in orders : o.id = loc[p].order.id =>
           /\ o.total = loc[p].expect
           /\ o.status = "pending"
           /\ (hist.seeded /\ hist.orderLog = << o.orderId >>) =>
                (o.total = 2297 /\ o.orderId = 1)

\* every order record that is in the store before and after the step has the
\* total it had
TotalsKept ==
  \A a \in AllRecords, b \in orders' \cup delivered' : a.id = b.id => a.total = b.total

\* C11: the total of a persisted order never changes: update-product with a new
\* price, delete-product, create-product and mark-delivered leave the total of
\* every existing order, active or delivered, as it was.
C11_TotalsNeverChange == [][TotalsKept]_vars

\* C11 witness: an order priced at 22.97 from the seeded catalog has been
\* delivered, and the price of its product 3 has since been changed
C11_Witness ==
  /\ \E d \in delivered : d.total = 2297 /\ d.id \in hist.okDelivered
  /\ \E r \in products : r.productId = 3 /\ r.price \in UpdatePrices
  /\ pc[1] = "done" /\ loc[1].op \in {"updateProduct", "markDelivered"}
\* a create-order call with an empty item sequence, while the handler runs or
\* holds its answer
EmptyOrder(p) == loc[p].op = "createOrder" /\ Len(loc[p].req.items) = 0

\* the step in which create-order takes up a request with an empty item
\* sequence answers 400 and leaves the active orders, the ObjectID counter and
\* the run of assigned orderIds as they were
EmptyOrderStep(p) ==
  (pc[p] = "idle" /\ loc'[p].op = "createOrder" /\ Len(loc'[p].req.items) = 0)
    => /\ pc'[p] = "done"
       /\ resp'[p].code = 400
       /\ orders' = orders
       /\ nextOrderOid' = nextOrderOid
       /\ hist'.orderLog = hist.orderLog

\* C12: create-order with an empty item sequence is rejected with 400; no
\* order is persisted, no orderId is computed or consumed and the active orders
\* stay as they were.
C12_EmptyOrderRejected ==
  /\ [][\A p \in Procs : EmptyOrderStep(p)]_vars
  /\ [](\A p \in Procs : EmptyOrder(p) =>
            /\ pc[p] = "done"
            /\ resp[p].code = 400
            /\ loc[p].nextId = 0
            /\ loc[p].order = NoOrder)

\* C12 witness: an empty order has been answered 400 while the active orders
\* hold an order
C12_Witness ==
  \E p \in Procs : EmptyOrder(p) /\ resp[p].code = 400 /\ orders # {}
\* the middleware has given its verdict on the request of p
GuardDone(p) ==
  /\ loc[p].auth.route # "none"
  /\ pc[p] \notin {"ra_lock", "ra_unlock", "ra_decide"}

\* the middleware has answered 401
GuardRejected(p) ==
  GuardDone(p) /\ loc[p].op = "requireAuth" /\ pc[p] = "done" /\ resp[p].code = 401

\* the middleware has called c.Next()
GuardAdmitted(p) == GuardDone(p) /\ ~(loc[p].op = "requireAuth" /\ pc[p] = "done")

\* the auth check has answered
CheckDone(p) == loc[p].op = "checkAuth" /\ pc[p] = "done"

\* a validation of a token that a login of this process issued
Validated(p) == (GuardDone(p) \/ CheckDone(p)) /\ loc[p].auth.known

Accepted(p) == GuardAdmitted(p) \/ (CheckDone(p) /\ resp[p].code = 200)

Rejected(p) == GuardRejected(p) \/ (CheckDone(p) /\ resp[p].code = 401)

\* the time.Now() at which the login issued the token that p sent
IssuedAt(p) == hist.issued[loc[p].auth.tok]

\* C13: a token issued by a login at time t and not logged out is accepted by
\* the middleware and by the auth check at every time u with t <= u < t + 24h,
\* whether or not the sweep has run in between, and rejected with 401 at every
\* time u >= t + 24h.
C13_ValidForTwentyFourHours ==
  \A p \in Procs :
    Validated(p) =>
      /\ (loc[p].auth.at < IssuedAt(p) + SessionTicks /\ ~loc[p].auth.afterLogout)
           => Accepted(p)
      /\ loc[p].auth.at >= IssuedAt(p) + SessionTicks => Rejected(p)
\* C14: once a logout has deleted token t, every later validation of t, by the
\* middleware or by the auth check, is rejected with 401, also within 24 hours
\* of the login, and t is never in the session map again.
C14_LoggedOutStaysOut ==
  /\ \A t \in hist.revoked : t \notin DOMAIN activeSessions
  /\ \A p \in Procs :
       ((GuardDone(p) \/ CheckDone(p)) /\ loc[p].auth.afterLogout) => Rejected(p)

\* C14 witness: within 24 hours of its login a logged-out token has been
\* rejected by the middleware and by the auth check
C14_Witness ==
  \E p, q \in Procs :
    /\ GuardRejected(p) /\ CheckDone(q) /\ Rejected(q)
    /\ \A r \in {p, q} : /\ loc[r].auth.afterLogout
                          /\ loc[r].auth.known
                          /\ loc[r].auth.at < IssuedAt(r) + SessionTicks
\* the delete of a logout whose token is not in the session map leaves the map
\* as it was, and so does a logout without a token
AbsentLogoutStep(p) ==
  /\ (pc[p] = "lo_lock" /\ pc'[p] = "lo_unlock"
        /\ loc[p].auth.tok \notin DOMAIN activeSessions)
       => activeSessions' = activeSessions
  /\ (pc[p] = "idle" /\ pc'[p] = "done" /\ loc'[p].op = "logout")
       => activeSessions' = activeSessions

\* C15: revoking is idempotent: a logout whose token is not in the session map
\* (never issued, already revoked or already swept) is answered like any
\* other and leaves the map unchanged, and deleting a token twice leaves the
\* map that deleting it once leaves.
C15_RevokeIdempotent ==
  /\ [][\A p \in Procs : AbsentLogoutStep(p)]_vars
  /\ [](\A p \in Procs : (loc[p].op = "logout" /\ pc[p] = "done") => resp[p].code = 200)
  /\ [](\A t \in (1 .. MaxSessions) \cup {Forged, BearerWord} :
          Revoke(Revoke(activeSessions, t), t) = Revoke(activeSessions, t))

\* C15 witness: a second logout of one token has been answered 200 while the
\* session map holds another session
C15_Witness ==
  \E p \in Procs : /\ loc[p].op = "logout"
                   /\ pc[p] = "done"
                   /\ loc[p].auth.afterLogout
                   /\ resp[p].code = 200
                   /\ activeSessions # NoSessions
\* C16: right after a pass of the sweep taken at time now, the session map
\* holds no entry whose expiry is at or before now.
C16_SweepRemovesExpired ==
  sweepPc = "swept" =>
    \A t \in DOMAIN activeSessions : activeSessions[t] > hist.sweptAt
RightLogin(p) ==
  /\ loc[p].op = "login"
  /\ loc[p].auth.body.bound
  /\ loc[p].auth.body.username = AdminUsername
  /\ loc[p].auth.body.password = AdminPassword

WrongLogin(p) ==
  /\ loc[p].op = "login"
  /\ loc[p].auth.body.bound
  /\ (loc[p].auth.body.username # AdminUsername \/ loc[p].auth.body.password # AdminPassword)

\* the steps of a login: the store step adds the one entry token -> now + 24h
\* for a token that was not in the map and leaves the other entries, every
\* other step of a login leaves the map as it was
LoginStep(p) ==
  /\ (pc[p] = "li_lock" /\ pc'[p] = "li_unlock")
       => /\ loc[p].auth.tok \notin DOMAIN activeSessions
          /\ DOMAIN activeSessions' = DOMAIN activeSessions \cup {loc[p].auth.tok}
          /\ activeSessions'[loc[p].auth.tok] = now + SessionTicks
          /\ \A t \in DOMAIN activeSessions : activeSessions'[t] = activeSessions[t]
  /\ (loc'[p].op = "login" /\ pc'[p] # pc[p] /\ pc'[p] # "li_unlock")
       => activeSessions' = activeSessions

\* the login of p has been answered 200 with the token it stored
LoginGranted(p) ==
  /\ resp[p].code = 200
  /\ resp[p].token = loc[p].auth.tok
  /\ resp[p].token \in DOMAIN hist.issued
  /\ resp[p].expiresIn = 86400

\* the login of p has been answered 500 because no token could be generated:
\* it holds no token and has stored nothing
LoginFailed(p) ==
  /\ resp[p].code = 500
  /\ resp[p].msg = "Failed to create session"
  /\ loc[p].auth.tok = NoToken

\* C17 (amended): a login with the admin username and password adds exactly
\* one session entry with expiry now + 24 hours and answers with its token and
\* expiresIn = 86400, or, when the session token cannot be generated, answers
\* 500 "Failed to create session" and leaves the session map unchanged; a login
\* with a wrong username or password answers 401 and leaves the session map
\* unchanged.
C17_LoginIssuesOneSessionOrFails ==
  /\ [][\A p \in Procs : LoginStep(p)]_vars
  /\ [](\A p \in Procs :
          /\ WrongLogin(p) => (pc[p] = "done" /\ resp[p].code = 401)
          /\ (RightLogin(p) /\ pc[p] = "done") => (LoginGranted(p) \/ LoginFailed(p))
          /\ (loc[p].op = "login" /\ resp[p].code \in {200, 500}) => RightLogin(p))

\* C17 as stated: a login with the admin username and password adds exactly
\* one session entry with expiry now + 24 hours and answers with its token and
\* expiresIn = 86400; a login with a wrong username or password answers 401 and
\* leaves the session map unchanged.
C17_LoginIssuesOneSession ==
  /\ [][\A p \in Procs : LoginStep(p)]_vars
  /\ [](\A p \in Procs :
          /\ WrongLogin(p) => (pc[p] = "done" /\ resp[p].code = 401)
          /\ (RightLogin(p) /\ pc[p] = "done")
               => /\ resp[p].code = 200
                  /\ resp[p].token = loc[p].auth.tok
                  /\ resp[p].token \in DOMAIN hist.issued
                  /\ resp[p].expiresIn = 86400
          /\ (loc[p].op = "login" /\ resp[p].code = 200) => RightLogin(p))

\* C17 witness: a second login, at a later time, has been answered with its
\* token, and the map holds both sessions, the new one expiring 24 hours on
C17_Witness ==
  \E p \in Procs :
    /\ RightLogin(p) /\ pc[p] = "done" /\ resp[p].code = 200
    /\ loc[p].auth.at > 0
    /\ Cardinality(DOMAIN activeSessions) = 2
    /\ activeSessions[resp[p].token] = loc[p].auth.at + SessionTicks
\* the goroutines inside a critical section that writes the session map: a
\* login after its store, a logout after its delete, the sweep after its pass
Writers ==
  { p \in Procs : pc[p] \in {"li_unlock", "lo_unlock"} }
    \cup (IF sweepPc = "swept" THEN {Sweeper} ELSE {})

\* the goroutines inside a critical section that reads it: the auth check and
\* the middleware after their lookup
Readers == { p \in Procs : pc[p] \in {"ca_unlock", "ra_unlock"} }

\* C18: access to the session map follows reader/writer exclusion: while a
\* login, a logout or the sweep is writing the map no other writer and no
\* validating reader is in it, and the map changes only in a step that takes a
\* goroutine into a writing section; validations may read side by side.
C18_ReadersWriterExclusion ==
  /\ [](/\ Cardinality(Writers) <= 1
        /\ Writers # {} => Readers = {}
        /\ Writers = {sessionsMu.writer} \ {Nobody}
        /\ Readers = sessionsMu.readers)
  /\ [][activeSessions' # activeSessions => (Writers = {} /\ Writers' # {})]_vars

\* C18 witness: the middleware and the auth check are reading the map at the
\* same time, each having found a session
C18_Witness ==
  /\ Readers = Procs
  /\ \E p, q \in Procs : pc[p] = "ra_unlock" /\ pc[q] = "ca_unlock"
  /\ \A p \in Procs : loc[p].auth.exists
\* the token of the request was in the session map with its expiry strictly
\* after the time.Now() of the validation
TokenValid(p) == loc[p].auth.exists /\ loc[p].auth.expiry > loc[p].auth.at

\* p is in a handler of a protected route, or holds its answer
InProtected(p) == loc[p].op \in ProtectedRoutes

\* a step that changes the store is a step of the open create-order or of a
\* protected handler whose request carried a valid token; the step in which the
\* middleware answers 401 leaves the store as it was
GuardedStep ==
  /\ products' # products
       => \E p \in Procs : loc'[p].op \in CatalogRoutes /\ GuardAdmitted(p)' /\ TokenValid(p)'
  /\ (orders' # orders \/ delivered' # delivered)
       => \E p \in Procs : \/ loc'[p].op = "createOrder"
                            \/ /\ loc'[p].op = "markDelivered"
                               /\ GuardAdmitted(p)' /\ TokenValid(p)'
  /\ \A p \in Procs : (~GuardRejected(p) /\ GuardRejected(p)') => store' = store

\* C19: no request without a currently valid session token causes a catalog
\* mutation or a mark-delivered transition or is served an order, the order
\* list or the delivered list: it is answered 401 with the store unchanged, and
\* without a look at the session map when it carries no token at all.  Product
\* listing and order creation are not behind the middleware.
C19_NoTokenNoAccess ==
  /\ [](\A p \in Procs :
          /\ InProtected(p) => (GuardAdmitted(p) /\ loc[p].auth.route = loc[p].op)
          /\ GuardAdmitted(p) => TokenValid(p)
          /\ (GuardDone(p) /\ ~TokenValid(p)) => GuardRejected(p)
          /\ (loc[p].op = "requireAuth" /\ loc[p].auth.tok = NoToken)
               => (pc[p] = "done" /\ resp[p].code = 401)
          /\ loc[p].op \in {"getProducts", "createOrder"}
               => (loc[p].auth = NoAuth /\ resp[p].code # 401))
  /\ [][GuardedStep]_vars
\* the session map held no entry for the token of the logout, or one whose
\* expiry was not after the time of the logout
NoSession(p) ==
  \/ loc[p].auth.tok = NoToken
  \/ ~loc[p].auth.exists
  \/ loc[p].auth.expiry <= loc[p].auth.at

LogoutDone(p) == loc[p].op = "logout" /\ pc[p] = "done"

\* C20 as stated: a logout that carries no token, or a token that is absent
\* from or expired in the session map, is answered 401.
C20_LogoutRequiresSession ==
  \A p \in Procs : (LogoutDone(p) /\ NoSession(p)) => resp[p].code = 401

\* the delete of a logout takes the entry of its token out of the session map,
\* expired or not, and leaves every other entry as it was
LogoutDeleteStep(p) ==
  (pc[p] = "lo_lock" /\ pc'[p] = "lo_unlock")
    => /\ loc[p].auth.tok \notin DOMAIN activeSessions'
       /\ DOMAIN activeSessions' = DOMAIN activeSessions \ {loc[p].auth.tok}
       /\ \A t \in DOMAIN activeSessions' : activeSessions'[t] = activeSessions[t]

\* C20 amended: logout needs no session.  Every logout is answered 200
\* "Logged out successfully", with or without a token and whatever the session
\* map holds for it; one that carries a token deletes the entry of that token
\* and nothing else.
C20_LogoutNeedsNoSession ==
  /\ [](\A p \in Procs :
          LogoutDone(p) => (resp[p].code = 200 /\ resp[p].msg = "Logged out successfully"))
  /\ [][\A p \in Procs : LogoutDeleteStep(p)]_vars

\* C20 witness: a logout whose token had expired in the session map has been
\* answered 200 and the token is gone from the map
C20_Witness ==
  \E p \in Procs : /\ LogoutDone(p)
                   /\ loc[p].auth.exists
                   /\ loc[p].auth.expiry < loc[p].auth.at
                   /\ resp[p].code = 200
                   /\ loc[p].auth.tok \notin DOMAIN activeSessions

\* p takes the step of mark-delivered that reads the active collection
DeliverReadStep(p) ==
  pc[p] = "md_find" /\ pc'[p] # "md_find" /\ loc'[p].op = "markDelivered"

\* p takes the one step of get-order
GetOrderStep(p) == pc[p] = "idle" /\ loc'[p].op = "getOrder"

\* the step of p made no store call that failed
NoFault == faults' = faults

\* C21 as stated: a well-formed identity that is not in the active collection
\* is answered 404 by mark-delivered and by get-order, an unparseable one 400,
\* and neither collection is modified.
C21_MissingIsNotFound ==
  [][\A p \in Procs :
       /\ (DeliverReadStep(p) /\ loc[p].id \notin Ids(orders))
            => (resp'[p].code = 404 /\ store' = store)
       /\ (GetOrderStep(p) /\ loc'[p].id # BadId /\ loc'[p].id \notin Ids(orders))
            => (resp'[p].code = 404 /\ store' = store)
       /\ ((GetOrderStep(p) \/ (pc[p] = "idle" /\ loc'[p].op = "markDelivered"))
              /\ loc'[p].id = BadId)
            => (resp'[p].code = 400 /\ store' = store)]_vars

\* the answer of a lookup of a well-formed identity that is not in the active
\* collection: 404 when the read succeeds, 500 when it fails, never 400
MissingAnswer(p) ==
  /\ pc'[p] = "done"
  /\ resp'[p].code = IF NoFault THEN 404 ELSE 500
  /\ resp'[p].msg = IF NoFault THEN "Order not found" ELSE "Failed to fetch order"
  /\ store' = store

\* C21 amended: mark-delivered and get-order answer 400 to an unparseable
\* identity without a store call, and to a well-formed identity that is not in
\* the active collection 404 when the read of the collection succeeds and 500
\* "Failed to fetch order" when it fails; neither collection is modified.
C21_MissingIsNotFoundOrReadError ==
  [][\A p \in Procs :
       /\ (DeliverReadStep(p) /\ loc[p].id \notin Ids(orders)) => MissingAnswer(p)
       /\ (GetOrderStep(p) /\ loc'[p].id # BadId /\ loc'[p].id \notin Ids(orders))
            => MissingAnswer(p)
       /\ ((GetOrderStep(p) \/ (pc[p] = "idle" /\ loc'[p].op = "markDelivered"))
              /\ loc'[p].id = BadId)
            => (pc'[p] = "done" /\ resp'[p].code = 400 /\ NoFault /\ store' = store)]_vars

\* C21 witness: a mark-delivered call on an order that was persisted and is no
\* longer in the active collection has been answered 404
C21_Witness ==
  \E p \in Procs : /\ loc[p].op = "markDelivered"
                   /\ pc[p] = "done"
                   /\ loc[p].id \in hist.persisted
                   /\ loc[p].id \notin Ids(orders)
                   /\ resp[p].code = 404

\* p, in mark-delivered, goes from `label` to its answer
DeliverAnswerFrom(p, label) ==
  pc[p] = label /\ pc'[p] = "done" /\ loc'[p].op = "markDelivered"

\* C22: a mark-delivered call that fails leaves the store as it was before the
\* call whenever its clean-up succeeds.  When the insert into the delivered
\* collection fails, neither collection is changed; when the delete from the
\* active collection fails and the compensating delete succeeds, the order is
\* in the active collection only, as the call read it and still pending; in
\* both cases the answer is an error.
C22_FailedCallRestoresStore ==
  [][\A p \in Procs :
       /\ DeliverAnswerFrom(p, "md_insert")
            => (resp'[p].code = 500 /\ store' = store)
       /\ (DeliverAnswerFrom(p, "md_undo") /\ NoFault)
            => /\ resp'[p].code = 500
               /\ loc[p].order \in orders'
               /\ loc[p].order.status = "pending"
               /\ loc[p].id \notin Ids(delivered')]_vars

\* the compensation of the mark-delivered call of p ended as `how` and the call
\* has answered
Compensation(p, how) ==
  loc[p].op = "markDelivered" /\ pc[p] = "done" /\ loc[p].comp = how

\* C23: the answer of a mark-delivered call whose compensating delete failed
\* too (the order is left in both collections) differs from the answer of a
\* call whose active-side delete failed and whose compensation succeeded.
C23_ConsistencyErrorDistinct ==
  \A p, q \in Procs :
    (Compensation(p, "left") /\ Compensation(q, "undone")) => resp[p] # resp[q]

\* p is in a mark-delivered call that has read its order and not yet answered
Delivering(p) == pc[p] \in {"md_stamp", "md_insert", "md_delete", "md_undo"}

\* p is in a mark-delivered call whose insert into delivered went through
Inserted(p) == pc[p] \in {"md_delete", "md_undo"}

\* C24: two concurrent mark-delivered calls on one record identity are not
\* mutually exclusive: both can hold the order after the read, both having read
\* the same pending record, and the second goes on to its insert while the
\* first is delivering.  What keeps the two apart is the store alone: the
\* insert takes one record per identity, so only one of the calls gets past it.
C24_DeliverNotExclusive ==
  /\ \A p, q \in Procs :
       (p # q /\ Delivering(p) /\ Delivering(q) /\ loc[p].id = loc[q].id)
         => /\ loc[p].order = loc[q].order
            /\ loc[p].order.status = "pending"
            /\ ~(Inserted(p) /\ Inserted(q))
  /\ \A a, b \in delivered : a.id = b.id => a = b

\* C24 witness: two calls hold the same order after their reads; one has
\* inserted its delivered record and the other stands at its insert
C24_Witness ==
  \E p, q \in Procs : /\ p # q
                      /\ loc[p].id = loc[q].id
                      /\ pc[p] = "md_delete"
                      /\ pc[q] = "md_insert"
                      /\ loc[p].id \in Ids(delivered)
                      /\ loc[p].id \in Ids(orders)

\* p takes the one step of get-product
GetProductStep(p) == pc[p] = "idle" /\ loc'[p].op = "getProduct"

\* the products the path id of the lookup of p stands for: the one with that
\* record identity, or those with that numeric productId
Meant(p) ==
  IF loc'[p].text THEN { r \in products : r.productId = loc'[p].id }
  ELSE { r \in products : r.id = loc'[p].id }

\* C25: get-product takes a record identity or a numeric productId: a lookup
\* whose path id is the productId of a product in the store returns that
\* product, and a lookup answers 404 only when no product matches the id.
C25_GetProductByEitherId ==
  [][\A p \in Procs :
       GetProductStep(p)
         => /\ (loc'[p].text /\ Meant(p) # {} /\ NoFault)
                 => (resp'[p].code = 200 /\ resp'[p].served \subseteq Ids(Meant(p)))
            /\ resp'[p].code = 404 => Meant(p) = {}]_vars

\* p takes the step of create-order or create-product that asks the sequence
\* generator, and the query of the generator fails
GeneratorFails(p, label) ==
  pc[p] = label /\ pc'[p] # label /\ loc'[p].op = loc[p].op /\ ~NoFault

\* the call of p ends with the error `msg`, no identifier assigned and nothing
\* written
NothingAssigned(p, msg) ==
  /\ pc'[p] = "done"
  /\ resp'[p].code = 500
  /\ resp'[p].msg = msg
  /\ resp'[p].orderId = 0
  /\ loc'[p].nextId = 0
  /\ loc'[p].order = NoOrder
  /\ store' = store
  /\ nextOrderOid' = nextOrderOid
  /\ nextProductOid' = nextProductOid

\* C26: when the query of the sequence generator fails during create-order or
\* create-product, the call answers with an internal error, assigns no
\* identifier and persists nothing; no identifier is used up: a creation that
\* holds an identifier, no insert having followed its read, holds the one the
\* generator gives on the store as it is.
C26_GeneratorFailureAssignsNothing ==
  /\ [][\A p \in Procs :
          /\ GeneratorFails(p, "co_nextid")
               => NothingAssigned(p, "Failed to generate order ID")
          /\ GeneratorFails(p, "cp_nextid")
               => NothingAssigned(p, "Failed to generate product ID")]_vars
  /\ [](\A p \in Procs :
          /\ (pc[p] \in {"co_build", "co_insert"} /\ ~loc[p].stale)
               => loc[p].nextId = GetNextOrderID(orders)
          /\ (pc[p] = "cp_insert" /\ ~loc[p].stale)
               => loc[p].nextId = GetNextProductID(products))

\* C26 witness: one create-order call has been answered "Failed to generate
\* order ID" on a store that holds an order, and the next one holds the
\* identifier after that order's
C26_Witness ==
  \E p, q \in Procs : /\ loc[p].op = "createOrder"
                      /\ pc[p] = "done"
                      /\ resp[p].msg = "Failed to generate order ID"
                      /\ orders # {}
                      /\ pc[q] = "co_insert"
                      /\ loc[q].nextId = GetNextOrderID(orders)
                      /\ loc[q].nextId > 1

\* p takes a pass of the price loop of create-order and its lookup fails
PriceLookupFails(p) ==
  /\ pc[p] = "co_price"
  /\ loc'[p].op = "createOrder"
  /\ loc'[p].idx # loc[p].idx
  /\ ~NoFault

\* C27: when a price lookup of create-order fails with a store error or a
\* timeout, the call answers with an internal error and persists no order: a
\* call gets as far as its insert only with every item priced as the store
\* holds it, an item adding 0 only when its product is missing.
C27_PriceLookupFailureFailsOrder ==
  /\ [][\A p \in Procs :
          PriceLookupFails(p)
            => (pc'[p] = "done" /\ resp'[p].code = 500 /\ store' = store)]_vars
  /\ [](\A p \in Procs : pc[p] = "co_insert" => loc[p].total = loc[p].expect)

\* C28: every order in the active or the delivered collection has a non-empty
\* item sequence in which every quantity is a positive integer.
C28_QuantitiesPositive ==
  \A o \in orders \cup delivered :
    /\ Len(o.items) > 0
    /\ \A i \in 1 .. Len(o.items) : o.items[i].quantity > 0

\* C29: after any sequence of create-product and update-product calls, also
\* updates whose price field is missing, unparseable or negative, every
\* product in the store has a non-negative price (NaN is not one).
C29_PricesNonNegative == \A r \in products : NonNegative(r.price)

\* the step is a start of the process with its catalog load
LoadStep == Crash

ProductIdsOf(coll) == { r.productId : r \in coll }

PricesOf(coll) == { << r.productId, r.price >> : r \in coll }

\* C30: the catalog load writes to the store only at first boot.  On an empty
\* product collection it inserts the default catalog (or nothing when the
\* insert fails) and sets the cache to the defaults; on a non-empty collection
\* it writes nothing and sets the cache to the products found, so a load run
\* again never adds or duplicates a product.
C30_LoadWritesOnlyWhenEmpty ==
  [][LoadStep =>
       /\ products = {}
            => /\ products' = {} \/ PricesOf(products') = PricesOf(DefaultProducts)
               /\ Cardinality(products') \in {0, NumDefaults}
               /\ PricesOf(cache') = PricesOf(DefaultProducts)
       /\ products # {}
            => /\ products' = products
               /\ cache' = ProductsList(products)]_vars

\* the store holds the product c of the cache (the defaults of the cache carry
\* no ObjectID: they are matched by productId and price)
InStore(c, coll) == \E r \in coll : r.productId = c.productId /\ r.price = c.price

\* the insert of the create-product call of p is answered with an error
CreateProductInsertFails(p) ==
  /\ pc[p] = "cp_insert"
  /\ pc'[p] = "done"
  /\ loc'[p].op = "createProduct"
  /\ resp'[p].code = 500

\* C31: a product enters the cache only after its write to the store has
\* succeeded: every product that create-product adds to the cache is in the
\* store, a create-product whose insert fails leaves store and cache as they
\* were, and after a catalog load every product of the cache is in the store.
C31_CacheOnlyAfterStoreWrite ==
  [][/\ \A c \in cache' \ cache : InStore(c, products')
     /\ \A p \in Procs :
          CreateProductInsertFails(p) => (store' = store /\ cache' = cache)
     /\ LoadStep => \A c \in cache' : InStore(c, products')]_vars

HasDeliveredAt(r) == "deliveredAt" \in DOMAIN r

\* C32: every record of the active collection has status pending and no
\* delivered timestamp; every record of the delivered collection has status
\* delivered and a delivered timestamp.
C32_StatusMatchesCollection ==
  /\ \A o \in orders : o.status = "pending" /\ ~HasDeliveredAt(o)
  /\ \A d \in delivered : d.status = "delivered" /\ HasDeliveredAt(d)

\* C32 witness: one order is active and another has been delivered
C32_Witness ==
  /\ \E o \in orders : o.id \notin Ids(delivered)
  /\ \E d \in delivered : d.id \notin Ids(orders)

\* a step of the mark-delivered handler of p past its parameter check
DeliverStep(p) ==
  /\ pc[p] \in {"md_find", "md_stamp", "md_insert", "md_delete", "md_undo"}
  /\ pc'[p] # pc[p]
  /\ loc'[p].op = "markDelivered"

OthersKept(coll, collNext, id) ==
  {r \in coll : r.id # id} = {r \in collNext : r.id # id}

CopyOf(d, o, at) ==
  /\ d.id = o.id /\ d.orderId = o.orderId /\ d.customer = o.customer
  /\ d.items = o.items /\ d.total = o.total /\ d.createdAt = o.createdAt
  /\ d.status = "delivered" /\ d.deliveredAt = at
  /\ DOMAIN d = DOMAIN o \cup {"deliveredAt"}

\* C33: the record a mark-delivered call writes to the delivered collection
\* has the id, orderId, customer, items, total and createdAt of the active
\* order the call read, differing only in status and the added deliveredAt;
\* the call adds nothing to the active collection and changes no record of
\* another id in either collection.
C33_DeliverCopiesOrder ==
  [][\A p \in Procs : DeliverStep(p) =>
       /\ \A d \in delivered' \ delivered :
             CopyOf(d, loc[p].order, loc[p].deliveredAt)
       /\ orders' \subseteq orders
       /\ OthersKept(orders, orders', loc[p].id)
       /\ OthersKept(delivered, delivered', loc[p].id)]_vars

\* C33 witness: a call answered 200, its order is in the delivered collection
\* and another order is in a collection
C33_Witness ==
  \E p \in Procs :
    /\ pc[p] = "done" /\ loc[p].op = "markDelivered" /\ resp[p].code = 200
    /\ \E d \in delivered : d.id = loc[p].id /\ d.total = loc[p].order.total
    /\ \E r \in orders \cup delivered : r.id # loc[p].id

\* the tokens a login can have issued
IssuedTokens == 1..MaxSessions

Expired(t) == t \in DOMAIN activeSessions /\ now > activeSessions[t]

\* C34: with the sweep firing again and again, every session entry whose
\* expiry has passed is eventually out of the session map.
C34_ExpiredEventuallySwept ==
  \A t \in IssuedTokens : Expired(t) ~> (t \notin DOMAIN activeSessions)

\* C34 witness: the sweep has just taken out an entry whose expiry had passed
\* and that no logout had deleted
C34_Witness ==
  /\ sweepPc = "swept"
  /\ \E t \in DOMAIN hist.issued :
       /\ hist.issued[t] + SessionTicks < hist.sweptAt
       /\ t \notin DOMAIN activeSessions
       /\ t \notin hist.revoked

\* p's mark-delivered call returns success in this step
DeliverSucceeds(p) ==
  /\ pc[p] = "md_delete" /\ pc'[p] = "done"
  /\ loc'[p].op = "markDelivered" /\ resp'[p].code = 200

\* the calls on `id` that stand answered with success
Succeeded(id) ==
  {p \in Procs : /\ pc[p] = "done" /\ loc[p].op = "markDelivered"
                 /\ loc[p].id = id /\ resp[p].code = 200}

\* C35: of the mark-delivered calls on one record identity, concurrent or not,
\* at most one returns success, and the delivered collection never holds more
\* than one record of an identity.
C35_OneDeliveryPerOrder ==
  /\ [][\A p \in Procs : DeliverSucceeds(p) => loc[p].id \notin hist.okDelivered]_vars
  /\ [](\A id \in OrderOids : Cardinality(Succeeded(id)) <= 1)
  /\ [](\A a, b \in delivered : a.id = b.id => a = b)

\* C35 witness: of two calls that read the same order, one stands answered
\* with success and the other with the error of its insert
C35_Witness ==
  \E p, q \in Procs :
    /\ p # q /\ loc[p].id = loc[q].id /\ loc[p].order = loc[q].order
    /\ pc[p] = "done" /\ loc[p].op = "markDelivered" /\ resp[p].code = 200
    /\ pc[q] = "done" /\ loc[q].op = "markDelivered"
    /\ resp[q].msg = "Failed to save delivered order"

\* the steps that hold sessionsMu: the delete of a logout, the store of a
\* login, the loop of the sweep, the read of a validation
LogoutDeletes(p, t) ==
  pc[p] = "lo_lock" /\ pc'[p] = "lo_unlock" /\ loc[p].auth.tok = t

LoginStores(p) == pc[p] = "li_lock" /\ pc'[p] = "li_unlock"

SweepLoops == sweepPc = "waiting" /\ sweepPc' = "swept"

Validates(p) ==
  /\ pc[p] \in {"idle", "ca_lock", "ca_unlock", "ca_decide", "ra_lock", "ra_unlock", "ra_decide"}
  /\ pc'[p] # pc[p]
  /\ loc'[p].op \in {"checkAuth", "requireAuth"}

\* C36: of the running server only a logout carrying the token, or a sweep at
\* a time after the entry's expiry, takes an entry out of the session map, and
\* no step changes the expiry of an entry; the sweep keeps every entry whose
\* expiry is not before its time, a login only adds the entry of its own
\* token, a logout takes out at most the entry of its token, and the auth
\* check and the middleware leave the map as it is.  (A restart of the
\* process starts with an empty map.)
C36_SessionFrame ==
  [][Crash \/
     /\ \A t \in DOMAIN activeSessions :
          IF t \in DOMAIN activeSessions'
            THEN activeSessions'[t] = activeSessions[t]
            ELSE \/ \E p \in Procs : LogoutDeletes(p, t)
                 \/ SweepLoops /\ now > activeSessions[t]
     /\ SweepLoops =>
          /\ DOMAIN activeSessions' \subseteq DOMAIN activeSessions
          /\ \A t \in DOMAIN activeSessions :
                activeSessions[t] >= now => t \in DOMAIN activeSessions'
     /\ \A p \in Procs :
          /\ LoginStores(p) =>
               /\ DOMAIN activeSessions \subseteq DOMAIN activeSessions'
               /\ DOMAIN activeSessions' \ DOMAIN activeSessions \subseteq {loc[p].auth.tok}
          /\ (pc[p] = "lo_lock" /\ pc'[p] = "lo_unlock") =>
               /\ DOMAIN activeSessions \ {loc[p].auth.tok} \subseteq DOMAIN activeSessions'
               /\ DOMAIN activeSessions' \subseteq DOMAIN activeSessions
          /\ Validates(p) => activeSessions' = activeSessions]_vars

\* C36 witness: a sweep has taken out an expired entry and kept another one
\* that a later login had stored
C36_Witness ==
  /\ sweepPc = "swept"
  /\ \E t \in DOMAIN activeSessions : activeSessions[t] >= hist.sweptAt
  /\ \E u \in DOMAIN hist.issued :
       /\ u \notin DOMAIN activeSessions
       /\ u \notin hist.revoked
       /\ hist.issued[u] + SessionTicks < hist.sweptAt

\* what each handler would do with the request (h, c) on the session map as
\* it stands
GuardWouldAdmit(h, c) ==
  LET e == Lookup(activeSessions, GuardToken(h, c))
  IN GuardAdmits(e.exists, e.expiry, now)

CheckWouldAuthenticate(h, c) ==
  LET e == Lookup(activeSessions, EndpointToken(h, c))
  IN EndpointToken(h, c) # NoToken /\ CheckAuthenticated(e.exists, e.expiry, now)

LogoutWouldLeave(h, c) ==
  IF EndpointToken(h, c) # NoToken THEN Revoke(activeSessions, EndpointToken(h, c))
  ELSE activeSessions

\* C37: for every Authorization header (absent, bare, "Bearer "-prefixed) and
\* cookie (absent, present) the middleware, the auth check and the logout take
\* the same token from the request; the auth check answers authenticated
\* exactly when the middleware would admit the request; and a logout takes out
\* of the session map exactly the entry the middleware admitted the request on.
C37_SameCredentialEverywhere ==
  \A h \in Headers, c \in Cookies :
    /\ GuardToken(h, c) = EndpointToken(h, c)
    /\ GuardWouldAdmit(h, c) <=> CheckWouldAuthenticate(h, c)
    /\ GuardWouldAdmit(h, c) =>
         LogoutWouldLeave(h, c) = Revoke(activeSessions, GuardToken(h, c))

\* the mark-delivered call of p answers in this step
DeliverAnswers(p) ==
  /\ pc[p] \in {"md_find", "md_stamp", "md_insert", "md_delete", "md_undo"}
  /\ pc'[p] = "done"
  /\ loc'[p].op = "markDelivered"

StrandedStays ==
  \A id \in OrderOids :
    Stranded(id) =>
      /\ Stranded(id)'
      /\ FindById(orders', id) = FindById(orders, id)
      /\ FindById(delivered', id) = FindById(delivered, id)

\* C38 as stated: an order left in both collections stays in both, and every
\* later mark-delivered call on it is answered with the error of the insert
\* into the delivered collection.
C38_StrandedFailsAtInsert ==
  [][/\ StrandedStays
     /\ \A p \in Procs :
          (DeliverAnswers(p) /\ Stranded(loc[p].id)) =>
            /\ resp'[p].code = 500
            /\ resp'[p].msg = "Failed to save delivered order"]_vars

\* C38, amended: an order left in both collections stays in both, with both
\* copies as they are, and every later mark-delivered call on it is answered
\* with an error: that of the insert into the delivered collection, or that
\* of the read of the order when the read fails.
C38_StrandedStaysStranded ==
  [][/\ StrandedStays
     /\ \A p \in Procs :
          (DeliverAnswers(p) /\ Stranded(loc[p].id)) =>
            /\ resp'[p].code = 500
            /\ resp'[p].msg \in {"Failed to save delivered order",
                                 "Failed to fetch order"}
            /\ resp'[p].msg = "Failed to fetch order" => pc[p] = "md_find"]_vars

\* C38 witness: the compensation of one call left the order in both
\* collections, and a call after it on the same order failed at its insert
C38_Witness ==
  \E p, q \in Procs :
    /\ p # q
    /\ Compensation(p, "left") /\ Stranded(loc[p].id)
    /\ loc[q].op = "markDelivered" /\ pc[q] = "done" /\ loc[q].id = loc[p].id
    /\ loc[q].both
    /\ resp[q].msg = "Failed to save delivered order"
    /\ loc[q].order.id = loc[p].id
====
